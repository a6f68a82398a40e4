SPECIFICATION FairSpec
CONSTANTS
    N = 3
    Contents = {"a", "b"}
    Content <- MCContent3
    FetchBuf = 1
    ForceImport = {FALSE}
    MayCancel = FALSE
    Signing = TRUE
    Faults = {"fetch", "lookup", "transform", "push", "sign", "blank"}
INVARIANTS NoSilentLoss ReportBalanced ImportedInOrder
PROPERTY Termination
