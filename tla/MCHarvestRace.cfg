SPECIFICATION Spec
CONSTANTS
    Modes = {TRUE}
    Caps <- SmallCaps
    DrainLimits = {0, 1}
    BatchMax = 3
    MaxSent = 5
INVARIANTS DropsCounted
