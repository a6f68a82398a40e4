SPECIFICATION FairSpec
CONSTANTS
    Zone <- MCZone
    Concurrency = 2
    MayCancel = TRUE
INVARIANTS Inv CardIsAdvertised DomainsExplained
PROPERTY FetchEnds
