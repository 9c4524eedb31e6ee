SPECIFICATION Spec
CONSTANTS
    Domains <- MCDomains
    Bases <- NoBase
    Sources <- ExampleSources
    MergeMaps <- None
    Strategies <- ExampleStrategies
    JsonPatches <- None
    Templates <- ExampleTemplates
    Platforms <- MCPlatforms
    Directives <- ExampleDirectives
    MaxItems = 1
INVARIANT DirectiveWins
CHECK_DEADLOCK FALSE
