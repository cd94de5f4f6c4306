SPECIFICATION FileSpec
CONSTANTS
    MaxEntries = 2
    MaxRequests = 3
    MaxFaults = 3
    MaxDeaths = 1
INVARIANTS
    FileInv
    SavedIsRecoverable
PROPERTIES
    EntryPersisted
CHECK_DEADLOCK FALSE
