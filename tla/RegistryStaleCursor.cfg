SPECIFICATION Spec
CONSTANTS
    Pages <- MCPages
    FilterCursor = 0
    Limit = 0
    OutBuf = 2
    MaxCalls = 2
    MayFail = FALSE
    MayCancel = FALSE
INVARIANT SentIsPrefix
