\* Any hardware at each launch, with the memory on both sides of every threshold.
CONSTANTS
    VRAM <- BoundaryVRAM
    Unset = Unset
SPECIFICATION Spec
INVARIANTS
    ChoiceSurvives
    RunningMeansDetected
PROPERTIES
    SettledOnceDetected
