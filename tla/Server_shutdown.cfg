CONSTANTS
    Receivers = {r1}
    Handlers = {h1, h2}
    Listeners = {l1, l2}
    Conns = {c1, c2, c3}
    QueueCap = 2
    MaxTcp = 1
    BindRaces = FALSE
    SpawnFails = TRUE
    Panics = TRUE
    MaxDatagrams = 3
    MaxConnects = 3
    MaxClients = 3
SPECIFICATION MCSpec
CHECK_DEADLOCK FALSE
INVARIANT Accounted
PROPERTY ShutdownCompletes
