SPECIFICATION FairSpec
CONSTANTS
    Callers <- MCOneCaller
    ConsoleMsgs <- MCOther
    MaxConsole = 1
    MaxPosts = 2
    MayClose = {"closed", "reset"}
    Addresses = 2
    MaxPins = 0
    SessionAnswers <- MCAnswers
INVARIANTS
    StoppedOnlyOnRequest
    MessagesInOrder
PROPERTIES
    StopEnds
    MessagesGetSent
CHECK_DEADLOCK FALSE
