\* Two visits of the layer, one of which may die.
CONSTANTS
    Layers <- MCLayers
    MaxForwards = 2
    MaxDeaths = 1
SPECIFICATION WellBuiltSpec
INVARIANTS
    UsedIsBound
    OnlyRoutedAreRead
CHECK_DEADLOCK FALSE
