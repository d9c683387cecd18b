SPECIFICATION AVSpec
CONSTANTS
    SeqHalf = 3
    MaxFrames = 7
    Source <- MCSource
    Fec <- MCFec
    Profile <- MCProfile
    Profiles = 2
    AudioPackets = {1, 2, 3, 5, 6, 7}
    AudioSource = 1
    AudioFec = 1
    MaxDue = 7
CONSTRAINT FewOfBoth
INVARIANTS
    CompleteIsWhole
    EveryFrameSettled
    ReportsAreTrue
PROPERTIES
    FramesInOrder
    AudioInOrder
CHECK_DEADLOCK FALSE
