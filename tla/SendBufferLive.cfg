SPECIFICATION FairSpec
CONSTANTS
    SeqHalf = 2
    Size = 2
    FirstSeq <- MCFirstSeq
    MaxSent = 2
    MayLose = TRUE
    SendMayFail = TRUE
    RecvMayFail = TRUE
    MayClose = TRUE
PROPERTIES
    StoredGetsAcked
    TeardownEnds
CHECK_DEADLOCK FALSE
