SPECIFICATION FairSpec
CONSTANTS
    Manual <- MCManual
    May <- MCMay
    Service = "service"
    MaxVersion = 2
    MaxCommands = 2
    None = None
INVARIANTS TypeOK DaemonCurrent
PROPERTIES SidecarMatches NoRollback Converges
