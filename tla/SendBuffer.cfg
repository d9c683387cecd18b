SPECIFICATION Spec
CONSTANTS
    SeqHalf = 4
    Size = 3
    FirstSeq <- MCFirstSeq
    MaxSent = 4
    MayLose = FALSE
    SendMayFail = TRUE
    RecvMayFail = TRUE
    MayClose = TRUE
INVARIANTS
    OneOwner
    AckedOnceReceived
    NeverAsleepOnPackets
PROPERTIES
    AckTakesTheCovered
CHECK_DEADLOCK FALSE
