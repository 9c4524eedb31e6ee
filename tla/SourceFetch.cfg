SPECIFICATION FairSpec
CONSTANTS
    Subs <- MCSubs
    Template <- MCTemplate
    Urls = {"u"}
    Kinds <- MCKinds
    Bodies <- MCBodies
    Accepts <- MCAccepts
    Kind <- MCKind
    UrlsOf <- MCUrlsOf
    Local <- MCLocal
    Concurrency = 2
    Retries = 1
    CacheOn = TRUE
    None = None
INVARIANTS TypeOK SlotsExact ResultsComplete RequestProtocol
PROPERTIES LoadReturns LastGoodServes OfflineSilent CacheAccepted
