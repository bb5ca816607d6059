SPECIFICATION SpecRestart
CONSTANTS
    Outcomes <- TwoFiles
    MaxTok = 2
    QMax = 1
    Files = {1, 2}
    ScopeIds = {"session"}
    Orders = {2}
    Depths = {0}
    KInit = 1
    KMax = 2
    CovOne = 16
    CovTarget = 13
    QStep = 1
    CountMax = 2
    DecayDiv = 2
    QueueCap = 1
    MaxEntries = 0
    CompactEvery = 2
    EpochMod = 2
    DrainLimits = {0}
    NoOutcome = NoOutcome
    MaxSent = 2
    MaxRestarts = 1
INVARIANTS ResumedAgrees
