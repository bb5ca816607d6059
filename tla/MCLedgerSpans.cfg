SPECIFICATION SpecV2
CONSTANTS
    Outcomes <- TwoFiles
    MaxTok = 1
    QMax = 1
    Files = {1, 2}
    ScopeIds = {"session"}
    Orders = {2}
    Depths = {0}
    KInit = 1
    KMax = 1
    CovOne = 16
    CovTarget = 13
    QStep = 1
    CountMax = 1
    DecayDiv = 2
    QueueCap = 1
    MaxEntries = 2
    CompactEvery = 2
    EpochMod = 2
    DrainLimits = {0, 1}
    NoOutcome = NoOutcome
    MaxSent = 3
    SpanMin = 2
    SpanMax = 3
    SpanOrders = {2}
    SpanDepths = {0}
    NoSpan = NoSpan
INVARIANTS Bounded ServedIsCurrent SpanTypeOK BreaksMatchBody PatchIsAtBreak StaleSpansExplained
