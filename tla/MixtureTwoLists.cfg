\* A second list of modules built alike, in the same layer.
CONSTANTS
    Layers <- TwoLists
    MaxForwards = 1
    MaxDeaths = 0
SPECIFICATION MixtureSpec
INVARIANT UsedIsBound
CHECK_DEADLOCK FALSE
