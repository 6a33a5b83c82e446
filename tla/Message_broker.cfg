SPECIFICATION FairSpec
CONSTANTS
    MaxMessages = 4
    MaxConnections = 2
INVARIANTS
    DeliveredInOrder
    NothingIsLost
    UndefinedAcrossConnections
    NoStaleMessage
PROPERTIES
    EveryMessageIsDelivered
CHECK_DEADLOCK FALSE
