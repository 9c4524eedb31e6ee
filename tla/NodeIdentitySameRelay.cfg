SPECIFICATION Spec
CONSTANTS
    Endpoints = {e1, e2}
    Texts <- MCTexts
    Profiles <- MCSameNames
    Optimized <- MCOptimized
INVARIANTS NodesSurvive
\* The build is over when the names are applied.
CHECK_DEADLOCK FALSE
