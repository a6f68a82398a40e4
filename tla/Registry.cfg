SPECIFICATION FairSpec
CONSTANTS
    Pages <- MCPages
    FilterCursor = 2
    Limit = 3
    OutBuf = 1
    MaxCalls = 2
    MayFail = TRUE
    MayCancel = TRUE
INVARIANTS TypeOK SentIsPrefix QuietEndIsComplete
PROPERTY FetchEnds
