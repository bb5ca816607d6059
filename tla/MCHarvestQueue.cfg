SPECIFICATION Spec
CONSTANTS
    Modes = {FALSE, TRUE}
    Caps <- SmallCaps
    DrainLimits = {0, 1}
    BatchMax = 3
    MaxSent = 5
INVARIANTS TypeOK AppliedInOrder CountedInOneThread
PROPERTIES ImplementsBuffer Settled
