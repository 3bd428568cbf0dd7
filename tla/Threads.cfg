SPECIFICATION ThreadsSpec
CONSTANTS
    Threads = {t1, t2}
    Keys = {1, 3}
    Slots = {s1, s2, s3, s4, s5, s6}
    MaxInflight = 1
    Needs <- NeedsDnskey
    NoThread = NoThread
    NoSlot = NoSlot
    CacheKeys = {1, 2}
    Callers = {c1, c2}
    Runners = {r1}
    Batches <- Chain
    Dependents <- OneAlias
    MaxChain = 1
    MaxRefreshes = 1
    Capacity = 1
    Rate = 1
    MaxTime = 1
INVARIANTS WaiterHasOwner SlotsReturned MarkIsOwned
PROPERTIES FirstResultWins EveryQueryReturns MarksClear
