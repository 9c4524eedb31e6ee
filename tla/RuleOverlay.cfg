SPECIFICATION Spec
CONSTANTS
    Domains <- MCDomains
    Bases <- MCBases
    Sources <- MCSources
    MergeMaps <- MCMergeMaps
    Strategies <- MCStrategies
    JsonPatches <- MCJsonPatches
    Templates <- MCTemplates
    Platforms <- MCPlatforms
    Directives <- MCDirectives
    MaxItems = 2
INVARIANTS
    TypeOK
    NeverTwice
    FakeIpExempt
    DirectDecides
    FixedPoint
CHECK_DEADLOCK FALSE
