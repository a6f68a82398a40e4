SPECIFICATION FairSpec
CONSTANTS
    Trees <- MCTrees
    Names <- MCNames
    SkillFile = "SKILL.md"
    Size <- MCSize
    Valid <- MCValid
    MaxFiles = 3
    MaxBytes = 4
    ItemBuf = 1
    ErrBuf = 1
    MaxEdits = 2
    MayCancel = TRUE
INVARIANTS TypeOK DiscoverExact QuietIsExact BundleWithinLimits AllSkillsReported
PROPERTY FetchEnds
