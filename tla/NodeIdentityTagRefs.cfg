SPECIFICATION Spec
CONSTANTS
    Endpoints = {e1, e2}
    Texts <- MCTexts
    Profiles <- MCLabelled
    Optimized <- MCOptimized
INVARIANTS ReferencesFollow
\* The build is over when the names are applied.
CHECK_DEADLOCK FALSE
