SPECIFICATION FairSpec
CONSTANTS
    MaxConnections = 2
    MaxPlayChanges = 2
    Commands = {play}
    Opens = {open1, open2}
    None = None
INVARIANTS
    ModelIsCurrent
    IdeFollowsPlay
PROPERTIES
    ModelIsTakenBack
    DanglesOnlyLate
    DroppedOnlyLate
    RequestsAreAnswered
CHECK_DEADLOCK FALSE
