SPECIFICATION Spec
CONSTANTS
    SeqHalf = 8
    Size = 4
    TagRemote <- MCTagRemote
    MaxMessages = 3
    Bang = 1
    EnableCrypt = TRUE
    MaxPostponed = 1
    MaxAV = 2
CHECK_DEADLOCK FALSE
INVARIANTS
    DeliveredInOrder
    AckedIsDelivered
    AVInOrderAfterKeys
PROPERTIES
    MessagesArrive
    TakionEnds
