SPECIFICATION FairSpec
CONSTANTS
    Configs <- MCConfigs
    Files <- MCFiles
    DefaultMaxSteps = 3
    MaxCalls = 2
    Records = 2
    MaxEdits = 1
INVARIANTS Inv ValidConfigBuilds BuiltIsUsable CallsAnswered
PROPERTY EnrichmentEnds
