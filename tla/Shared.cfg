SPECIFICATION Spec
CONSTANTS
    Clients = {1, 2, 3}
    Token = 2
    Burst = 4
    Rate = 1
    MaxBuckets = 2
    BucketRetention = 4
    BucketStride = 8
    LimiterTime = 5
    Keys = {1, 2, 3}
    MaxEdges = 4
    PruneAge = 1
    AliasTime = 3
    Names = {"a", "b", "c", "d"}
    First = 1
    Last = 4
    MaxEntries = 3
    Ttl = 1
    FakeStride = 2
    Snapshot <- SomeSnapshot
    FakeTime = 2
    Setup <- SomeSetup
    Endpoints = {1, 2, 3}
    Id <- SomeIds
    Draw <- SomeDraws
    Lists <- SomeLists
    Rtts = {200, 430}
    Assumed = 400
    MinRto = 250
    Percent = 10
    Absolute = 20
    MaxPaths = 2
    Retention = 1
    Stride = 8
    MaxTime = 2
    MaxRecords = 3
INVARIANTS
    RateRespected
    EdgesExact
    ClosureExact
    Reversible
    AllocationSucceeds
    LotteryAmongEquals
    ChoiceIsStable
PROPERTIES
    FreshGoesLast
    KeepsContract
