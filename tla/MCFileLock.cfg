SPECIFICATION Spec
CONSTANTS
    Client = {"c1", "c2", "c3"}
    Process = {"p1", "p2", "p3"}
    Pid <- MCPid
    retries = 2
    MaxCrashes = 1
    None = "none"
INVARIANTS
    LockInv
    NothingLeft
PROPERTIES
    ReleaseSparesOthers
CHECK_DEADLOCK FALSE
