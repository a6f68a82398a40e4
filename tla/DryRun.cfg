SPECIFICATION DryFairSpec
CONSTANTS
    N = 2
    Contents = {"a", "b"}
    Content <- MCContent2
    FetchBuf = 1
    ForceImport = {FALSE, TRUE}
    MayCancel = TRUE
    Faults = {"fetch", "transform", "mkdir", "write"}
INVARIANT PreviewAccurate
PROPERTIES DryContractSpec DryTermination
