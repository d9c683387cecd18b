SPECIFICATION FairSpec
CONSTANTS
    Callers <- MCOneCaller
    ConsoleMsgs = {"LOGIN_PIN_REQ"}
    MaxConsole = 1
    MaxPosts = 0
    MayClose = {"reset"}
    Addresses = 1
    MaxPins = 1
    SessionAnswers = {"ok"}
PROPERTIES
    PinForwardingEnds
CHECK_DEADLOCK FALSE
