SPECIFICATION Spec
CONSTANTS
    Files = {}
    NoView = NoView
    Outdated = Outdated
    Rows <- PairRows
    MaxTok = 2
    QMax = 2
    KInit = 1
    KMax = 3
    CovOne = 4
    CovTarget = 3
    QStep = 1
    CountMax = 1
    DecayDiv = 2
    MissedMax = 2
INVARIANTS TypeOK CacheCoherent MergeIsLoop EvictionIsFair AbsenceFades
