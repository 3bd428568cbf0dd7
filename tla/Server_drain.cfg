CONSTANTS
    Receivers = {r1}
    Handlers = {h1}
    Listeners = {l1}
    Conns = {c1}
    QueueCap = 1
    MaxTcp = 1
    BindRaces = FALSE
    SpawnFails = FALSE
    Panics = FALSE
    MaxDatagrams = 1
    MaxConnects = 0
    MaxClients = 1
SPECIFICATION FairSpec
CHECK_DEADLOCK FALSE
PROPERTY DroppedAtShutdown
