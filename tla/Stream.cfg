SPECIFICATION FairSpec
CONSTANTS
    MaxStates = 2
    ConsoleMsgs <- MCMessages
INVARIANTS
    ConnectedAfterHandshake
    ResultIsEarned
    TakionOutlivedByReceivers
    FeedbackIsCurrent
PROPERTIES
    RunEnds
CHECK_DEADLOCK FALSE
