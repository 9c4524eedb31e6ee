\* Two invocations at a time.
SPECIFICATION Spec
CONSTANTS
    Runs = {"r1", "r2"}
    Workers = {w1}
    HostList <- MCHostList1
    Ips <- MCIps1
    Private <- MCNone
    Resolves <- MCResolves1
    Literal <- MCNone
    MaxAge = 1
    Start = 1
    MaxNow = 1
    None = None
PROPERTIES MetadataRetained
\* A run ends.
CHECK_DEADLOCK FALSE
