\* The clock stops at LastTick.
CHECK_DEADLOCK FALSE
SPECIFICATION Spec
CONSTANTS
    HalfSeconds = 8
    FractionsMod = 16
    FractionsPerMs = 6
    MsPerSec = 3
    U64Mod = 256
    UnixEpoch = 9
    Era1Start = 7
    FractionsPerUs = 3
    UsPerSec = 6
    LastTick = 600
INVARIANTS
    UnixTimeTrue
PROPERTIES
    UnixNeverBack
