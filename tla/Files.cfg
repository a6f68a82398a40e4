SPECIFICATION FairSpec
CONSTANTS
    Sources <- MCSources
    ItemBuf = 1
    ErrBuf = 1
    OpenFails = TRUE
    MayCancel = TRUE
INVARIANTS TypeOK AllReported SentInOrder
PROPERTY FetchEnds
