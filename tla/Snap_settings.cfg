\* Three player states come and go, two of them may be local at a time.  The
\* system stops when all of them have ended.
CONSTANTS
    PlayerState = {s1, s2, s3}
    MaxLocal = 2
    NoPlayerState = NoPlayerState
SPECIFICATION Spec
INVARIANTS
    LocalIsServed
    StepsAreShown
PROPERTIES
    LostOnlyToLocal
CHECK_DEADLOCK FALSE
