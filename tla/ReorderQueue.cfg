SPECIFICATION Spec
CONSTANTS
    SeqHalf = 8
    Size = 4
    SeqStarts <- StartsDef
    DropStrategies <- StrategiesDef
    Elements <- ElementsDef
    NoElem = NoElem
    DropIndices <- DropsDef
    MaxGiven = 2
    e1 = e1
    e2 = e2
    e3 = e3
SYMMETRY ElementSymmetry
CHECK_DEADLOCK FALSE
INVARIANTS
    EntriesMatchSerials
    EachElementOnce
PROPERTIES
    ImplementsOrderedDelivery
