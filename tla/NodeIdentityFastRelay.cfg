SPECIFICATION Spec
CONSTANTS
    Endpoints = {e1, e2}
    Texts <- MCTexts
    Profiles <- MCFastChain
    Optimized <- MCOptimized
INVARIANTS BadgeFollows
\* The build is over when the names are applied.
CHECK_DEADLOCK FALSE
