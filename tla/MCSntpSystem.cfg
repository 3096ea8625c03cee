SPECIFICATION SystemSpec
CONSTANTS
    HalfSeconds = 1
    FractionsMod = 7
    FractionsPerMs = 1
    MsPerSec = 8
    U64Mod = 4096
    FractionsWidth = 3
    RandomMasks = {0}
    NumServers = 2
    Addresses = {0, 1}
    NoAddress = 9
    Datagrams <- Responses
    Configured = FALSE
    AuthSizes = {0}
    BufferLen = 48
    U16Max = 65535
    ResponseTimeoutMs = 3
    BlockTimesMs = {1}
    Kind <- MCTwoServers
    InitialErrors = {2}
    ListenAfter <- MCListenAfter
    AskAfter <- MCAskAfter
    Duplicating = TRUE
    SharedHost = FALSE
    SlewLimit = 0
    MaxDelay = 1
    MaxInFlight = 1
    SlowSteps = {"requestTime", "recvFrom", "rxTime"}
    MaxLag = 1
    MaxAge = 7
INVARIANTS
    TypeOKSystem
    OffsetIsHowFarBehind
    CreditedToAnswerer
PROPERTIES
    TimeoutIsTrue
    TimedOutHasExpired
