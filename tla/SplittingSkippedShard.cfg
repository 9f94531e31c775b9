SPECIFICATION Spec
CONSTANTS
    NoPath = NoPath
    None = NoPath
    Digits <- MCDigits
    Checkpoints <- AroundCheckpoints
    MaxFaults = 3
INVARIANTS
    DoneIsWhole
CHECK_DEADLOCK FALSE
