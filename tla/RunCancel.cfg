SPECIFICATION FairSpec
CONSTANTS
    N = 2
    Contents = {"a", "b"}
    Content <- MCContent2
    FetchBuf = 1
    ForceImport = {FALSE, TRUE}
    MayCancel = TRUE
    Signing = TRUE
    Faults = {"fetch", "transform", "enrich"}
INVARIANTS Inv NoRepush CountsBounded
PROPERTIES ContractSpec QuietAfterReturn CancelEnds
\* An uncancelled import stops for good when the enricher fails.
CHECK_DEADLOCK FALSE
