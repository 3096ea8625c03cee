SPECIFICATION SystemSpec
CONSTANTS
    HalfSeconds = 1
    FractionsMod = 6
    FractionsPerMs = 1
    MsPerSec = 7
    U64Mod = 4096
    FractionsWidth = 3
    RandomMasks = {0}
    NumServers = 1
    Addresses = {0}
    NoAddress = 9
    Datagrams <- Responses
    Configured = TRUE
    AuthSizes = {0}
    BufferLen = 48
    U16Max = 65535
    ResponseTimeoutMs = 2
    BlockTimesMs = {1}
    Kind <- MCOneServer
    InitialErrors = {11}
    ListenAfter <- MCListenAfter
    AskAfter <- MCAskAfter
    Duplicating = FALSE
    SharedHost = TRUE
    SlewLimit = 0
    MaxDelay = 1
    MaxInFlight = 1
    SlowSteps = {"requestTime", "recvFrom", "rxTime"}
    MaxLag = 1
    MaxAge = 8
PROPERTIES
    TimedOutHasExpired
