SPECIFICATION FairSpec
CONSTANTS
    MaxMessages = 3
    MaxLinks = 4
INVARIANTS
    AcknowledgementsHold
    DrainedIsReceived
PROPERTIES
    RepeatsAreUnacknowledged
    ImplementsChannel
    Arrives
CHECK_DEADLOCK FALSE
