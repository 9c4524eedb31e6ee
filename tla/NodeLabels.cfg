SPECIFICATION FairSpec
CONSTANTS
    Nodes = {p1, p2, p3, p4}
    Places <- MCPlaces
    Reservable <- MCReservable
    Builtin <- MCBuiltin
    Keys = {1, 2, 3}
    Rank <- MCRank
INVARIANTS TypeOK Distinct OffLimits Stable
PROPERTIES Terminates
\* The labelling is over when every node has its label.
CHECK_DEADLOCK FALSE
