SPECIFICATION Spec
CONSTANTS
    Verify = TRUE
    HostChecked = TRUE
    MaxCryptoBuffer = 8
    Servers <- OutOfOrder
    SendsFail = FALSE
    QueryLen = 2
    RespLen = 3
    MaxChunk = 2
    MaxResponse = 3
    Window = 2
    MaxPto = 1
    MaxTurns = 2
    MaxCalls = 1
    MaxPn = 4
INVARIANT ResponseIntact
