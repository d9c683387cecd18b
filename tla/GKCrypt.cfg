SPECIFICATION Spec
CONSTANTS
    SeqHalf = 4
    Chunk = 2
    Chunks = 3
    KeyRefresh = 5
    MaxSkew = 3
    Lengths <- LengthsDef
    MaxPos = 17
CHECK_DEADLOCK FALSE
INVARIANTS
    KeyPosIsTrue
    MacKeyFits
    ReadsItsOwnStream
PROPERTY ThreadKeepsUp
