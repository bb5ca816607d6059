SPECIFICATION SpecV2
CONSTANTS
    Outcomes <- OneFile
    MaxTok = 1
    QMax = 1
    Files = {1}
    ScopeIds = {"session"}
    Orders = {}
    Depths = {0}
    KInit = 1
    KMax = 2
    CovOne = 16
    CovTarget = 13
    QStep = 1
    CountMax = 2
    DecayDiv = 2
    QueueCap = 1
    MaxEntries = 0
    CompactEvery = 0
    EpochMod = 2
    DrainLimits = {0}
    NoOutcome = NoOutcome
    MaxSent = 5
    SpanMin = 2
    SpanMax = 3
    SpanOrders = {2}
    SpanDepths = {0}
    NoSpan = NoSpan
INVARIANTS SpanServedIsCurrent
