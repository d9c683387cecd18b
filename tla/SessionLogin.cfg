SPECIFICATION Spec
CONSTANTS
    Callers <- MCOneCaller
    ConsoleMsgs <- MCLogin
    MaxConsole = 3
    MaxPosts = 1
    MayClose = {"closed", "reset"}
    Addresses = 1
    MaxPins = 2
    SessionAnswers = {"ok"}
INVARIANTS
    NoWorkUnnoticed
    OnePinPerRequest
    QuitIsLast
CHECK_DEADLOCK FALSE
