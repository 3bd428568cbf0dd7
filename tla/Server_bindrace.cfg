CONSTANTS
    Receivers = {r1}
    Handlers = {h1}
    Listeners = {l1}
    Conns = {c1}
    QueueCap = 1
    MaxTcp = 1
    BindRaces = TRUE
    SpawnFails = FALSE
    Panics = FALSE
    MaxDatagrams = 0
    MaxConnects = 0
    MaxClients = 0
SPECIFICATION FairSpec
CHECK_DEADLOCK FALSE
PROPERTY ShutdownCompletes
