SPECIFICATION FairSpec
CONSTANTS
    Foreign <- MCForeign
    Histories <- MCHistories
    Taxonomies = {"old", "new"}
    Limit = 2
    MaxOthers = 1
    Room = 2
    MaxTime = 2
    MayFail = TRUE
    MayCancel = TRUE
INVARIANTS TypeOK VerdictSound NoTwin
PROPERTY ImportsEnd
