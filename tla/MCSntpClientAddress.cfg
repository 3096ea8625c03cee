SPECIFICATION SpecHistory
CONSTANTS
    HalfSeconds = 1
    FractionsMod = 4
    FractionsPerMs = 2
    MsPerSec = 2
    U64Mod = 64
    FractionsWidth = 2
    RandomMasks = {0, 1}
    NumServers = 2
    Addresses <- MCAddresses
    NoAddress <- MCNoAddress
    Datagrams <- MCDatagrams
    Configured = FALSE
    AuthSizes = {0, 16, 20}
    BufferLen = 64
    U16Max = 65535
    ResponseTimeoutMs = 3
    BlockTimesMs = {0, 2}
INVARIANTS
    AddressOfServerInUse
