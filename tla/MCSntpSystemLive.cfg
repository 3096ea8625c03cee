SPECIFICATION FairSystemSpec
CONSTANTS
    HalfSeconds = 1
    FractionsMod = 4
    FractionsPerMs = 1
    MsPerSec = 5
    U64Mod = 4096
    FractionsWidth = 3
    RandomMasks = {0}
    NumServers = 3
    Addresses = {0, 1, 2}
    NoAddress = 9
    Datagrams <- Responses
    Configured = FALSE
    AuthSizes = {0}
    BufferLen = 48
    U16Max = 65535
    ResponseTimeoutMs = 4
    BlockTimesMs = {1}
    Kind <- MCThreeServers
    InitialErrors = {0}
    ListenAfter <- MCListenAfter
    AskAfter <- MCAskAfterPatient
    Duplicating = FALSE
    SharedHost = FALSE
    SlewLimit = 1
    MaxDelay = 1
    MaxInFlight = 1
    SlowSteps = {"requestTime", "sendRetry", "recvRetry"}
    MaxLag = 1
    MaxAge = 0
PROPERTIES
    CallsReturn
    Synchronises
