\* Three players for two slots: every join may be one too many.
CONSTANTS
    Player = {p1, p2, p3}
    Viewer = {v1}
    MaxPlayers = 2
SYMMETRY PlayerViewerSymmetry
CONSTRAINT OneLeaverAtATime
SPECIFICATION Spec
INVARIANTS
    HoldersArePainted
    SharedOnlyWithLeavers
