SPECIFICATION Spec
CONSTANTS
    Outcomes <- Corrected
    Queries <- AtContext
    MaxTok = 2
    QMax = 1
    Files = {1}
    ScopeIds = {"session"}
    Orders = {7, 8}
    Depths = {0}
    KInit = 2
    KMax = 2
    CovOne = 16
    CovTarget = 13
    QStep = 1
    CountMax = 4
    DecayDiv = 2
    QueueCap = 1
    MaxEntries = 0
    CompactEvery = 0
    EpochMod = 2
    DrainLimits = {0}
    NoOutcome = NoOutcome
    MaxSent = 3
    One = 1000
    OrderWeight <- OrderWeights
    ScopeWeight <- ScopeWeights
    CountPrior = 2
    AnnoPrior = 250
    HiOrder = 8
    MaxCands = 8
    Prob <- Probs
    RejMargin = 50
INVARIANTS OffersAreCurrent RejectionsAreSpecific CorrectionTakesOver
