SPECIFICATION Spec
CONSTANTS
    N = 1
    Contents = {"a", "b"}
    Content <- MCContent1
    FetchBuf = 1
    ForceImport = {TRUE}
    MayCancel = FALSE
    Signing = TRUE
    Faults = {"sign"}
INVARIANT TotalIsSum
