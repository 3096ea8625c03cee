\* The last pair of arguments has no successor.
CHECK_DEADLOCK FALSE
SPECIFICATION Spec
CONSTANTS
    Scale = 10
    ArgumentMax = 150
    U32Bits = 12
INVARIANTS
    LongestSafeInterval
PROPERTIES
    IntervalFollowsDemand
