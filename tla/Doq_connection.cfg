SPECIFICATION Spec
CONSTANTS
    Verify = TRUE
    HostChecked = TRUE
    MaxCryptoBuffer = 8
    Servers <- Zoo
    SendsFail = TRUE
    QueryLen = 2
    RespLen = 2
    MaxChunk = 2
    MaxResponse = 3
    Window = 2
    MaxPto = 1
    MaxTurns = 2
    MaxCalls = 2
    MaxPn = 4
INVARIANT AuthenticatedTraffic NonceUnique CryptoInOrder NothingForgotten
PROPERTY ExchangeReturns
