SPECIFICATION OrderlySpec
CONSTANTS
    NoPath = NoPath
    None = NoPath
    Digits <- MCDigits
    Checkpoints <- MCCheckpoints
    MaxFaults = 3
INVARIANTS
    DoneIsWhole
    SplitCovers
PROPERTIES
    SplitEnds
CHECK_DEADLOCK FALSE
