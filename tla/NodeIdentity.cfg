SPECIFICATION Spec
CONSTANTS
    Endpoints = {e1, e2}
    Texts <- MCTexts
    Profiles <- MCProfiles
    Optimized <- MCOptimized
INVARIANTS TypeOK NodesSurvive ReferencesFollow BadgeFollows
\* The build is over when the names are applied.
CHECK_DEADLOCK FALSE
