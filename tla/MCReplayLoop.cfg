SPECIFICATION Spec
CONSTANTS
    MaxTok = 1
    QMax = 1
    Files = {1, 2}
    ScopeIds <- TheIds
    Orders = {2}
    Depths = {0}
    Posteriors <- SomePosteriors
    Proposals <- SomeProposals
    Budget = 3
    SpanMinCount = 2
    BreakSplitMin = 2
    CostMax = 2
    CostCap = 2
    RejCost = 2
    NoSpan = NoSpan
    Traces <- SomeTraces
    Kinds = {"ledger", "positive", "recycle", "dense", "vanilla"}
    Recent = 4
    Tenants = {"t1", "t2"}
    Template <- SmallTemplate
    RowWidth = 2
    Repos <- TheRepos
    DenseWindow = 3
    AddBatch = 2
    MaxOrder = 2
    NoOutcome = NoOutcome
INVARIANTS DraftWellFormed WrittenIsRead OutcomeHonest AcceptsLongest ContextsAgree EditsOnTime RowsAreLatest KeysInPlace
PROPERTIES Finishes
CHECK_DEADLOCK FALSE
