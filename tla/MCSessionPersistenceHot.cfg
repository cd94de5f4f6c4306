SPECIFICATION FileSpec
CONSTANTS
    MaxEntries = 3
    MaxRequests = 1
    MaxFaults = 0
    MaxDeaths = 0
INVARIANT HotAppendSurvives
CHECK_DEADLOCK FALSE
