\* An exchange ends: the final state has no successor.
CHECK_DEADLOCK FALSE
SPECIFICATION Spec
CONSTANTS
    HalfSeconds = 1
    FractionsMod = 16
    FractionsPerMs = 5
    MsPerSec = 4
    U64Mod = 64
    StartTicks <- MCStartTicks
    Skews <- MCSkews
    Tail = {48}
    Earlier <- MCEarlier
    Answers <- MCAnswers
    MaxLeg = 3
    FractionsWidth = 4
    RandomMasks = {0, 1, 3}
INVARIANTS
    TypeOK
    EraSafe
    OnlyTheRequestIsSent
    AnswerUnderstood
    OffsetError
    ElapsedAccurate
PROPERTIES
    DeadlineStaysReached
