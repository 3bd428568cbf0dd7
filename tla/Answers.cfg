SPECIFICATION AnswersSpec
CONSTANTS
    Threads = {t1, t2}
    Worlds <- AllWorlds
    Lifetime <- Lifetimes
    StaleWindow = 2
    MaxCnameDepth = 2
    Assessments <- Opinions
    Value = 10
    MaxSets = 2
    One = 1000
    BaseMinFreshness = 950
    ValueFloor = 20
    BudgetCapacity = 5000
    BudgetPerTick = 2000
    MaxDependencies = 2
    Validators = {v1, v2}
    Messages <- SomeMessages
    Signers <- SomeSigners
    Now = 4
    HasAnchor = TRUE
    Nobody = Nobody
    MaxNameLen = 12
    MaxLabels = 4
    MaxLabelLen = 3
    MaxPointerOffset = 60
    MaxRdLen = 30
    MaxQuestions = 2
    MaxSectionRecords = 6
    MinUdp = 70
    Anchored = TRUE
    FrameWrap = 160
    Queries <- SomeQueries
    Resolutions <- SomeResolutions
    Fragile = {258, 9}
    Faults <- SomeFaults
INVARIANTS
    RiskWindow
    WeakestLink
    PoisonGate
    RightGroup
    IdentityKept
    ScopeRespected
    AllRule
    HonestIsVerified
    RoundTrip
    TruncationTight
CHECK_DEADLOCK FALSE
