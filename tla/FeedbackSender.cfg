SPECIFICATION FairFeedbackSpec
CONSTANTS
    NButtons = 2
    NSlots = 2
    IdMod = 3
    Places = {1, 2}
    Sticks = {"rest", "left"}
    Idle = "rest"
    HistorySize = 3
    SeqHalf = 2
    MaxChanges = 5
INVARIANTS
    ConsoleFollows
    PacketsRepeatEvents
PROPERTIES
    SticksGetThrough
CHECK_DEADLOCK FALSE
