CONSTANTS
    Names <- SomeNames
    Question <- Host
    Referrals <- Delegations
    Roots = 1
    MaxCname = 1
    MaxReferrals = 1
    MaxNsDepth = 1
    MaxServers = 2
    MaxAttempts = 2
    MaxTotal = 3
    MaxDelegations = 2
    MaxLookups = 2
    MaxSubqueries = 4
    MaxBytes = 3
    MaxNs = 3
    SmallReferral = 2
    Enough = 2
    Routed <- OrgOnly
    Pinned <- ComOnly
    Dnssec = TRUE
    Waits = 2
    TcpFallback = TRUE
    Minimize = TRUE
    Timeout = 2
    QueryBudget = 2
SPECIFICATION FairSpec
CHECK_DEADLOCK FALSE
INVARIANT LimitsKept
PROPERTIES Terminates EveryStepCounts
