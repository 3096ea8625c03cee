SPECIFICATION UnsteadySpec
CONSTANTS
    HalfSeconds = 1
    FractionsMod = 4
    FractionsPerMs = 1
    MsPerSec = 5
    U64Mod = 4096
    FractionsWidth = 3
    RandomMasks = {0}
    NumServers = 1
    Addresses = {0}
    NoAddress = 9
    Datagrams <- Responses
    Configured = FALSE
    AuthSizes = {0}
    BufferLen = 48
    U16Max = 65535
    ResponseTimeoutMs = 3
    BlockTimesMs = {2}
    Kind <- MCOneServer
    InitialErrors = {0}
    ListenAfter <- MCListenAfter
    AskAfter <- MCAskAfterPatient
    Duplicating = FALSE
    SharedHost = FALSE
    SlewLimit = 0
    MaxDelay = 1
    MaxInFlight = 1
    SlowSteps = {"sendRetry"}
    MaxLag = 1
    MaxAge = 0
PROPERTIES
    BlockTimeBoundsSend
