SPECIFICATION FairSpec
CONSTANTS
    Runs = {"r1"}
    Workers = {w1, w2}
    HostList <- MCHostList
    Ips <- MCIps
    Private <- MCPrivate
    Resolves <- MCResolves
    Literal <- MCLiteral
    MaxAge = 1
    Start = 0
    MaxNow = 1
    None = None
INVARIANTS TypeOK Accounting Attribution
PROPERTIES MetadataRetained RefreshEnds
\* A run ends.
CHECK_DEADLOCK FALSE
