SPECIFICATION Spec
CONSTANTS
    Outcomes <- Surprise
    MaxTok = 3
    QMax = 1
    Files = {1}
    ScopeIds = {"session"}
    Orders = {2}
    Depths = {0}
    KInit = 2
    KMax = 2
    CovOne = 16
    CovTarget = 13
    QStep = 1
    CountMax = 2
    DecayDiv = 2
    QueueCap = 2
    MaxEntries = 0
    CompactEvery = 0
    EpochMod = 3
    DrainLimits = {0}
    NoOutcome = NoOutcome
    MaxSent = 3
INVARIANTS CorrectionLearned
