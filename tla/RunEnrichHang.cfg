SPECIFICATION FairSpec
CONSTANTS
    N = 2
    Contents = {"a", "b"}
    Content <- MCContent2
    FetchBuf = 1
    ForceImport = {TRUE}
    MayCancel = FALSE
    Signing = FALSE
    Faults = {"enrich"}
PROPERTY Termination
CHECK_DEADLOCK FALSE
