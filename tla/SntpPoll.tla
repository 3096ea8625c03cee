------------------------------ MODULE SntpPoll ------------------------------
(***************************************************************************)
(* calculate_poll_interval, for every pair of arguments: an application    *)
(* that tries one after the other.                                         *)
(***************************************************************************)
EXTENDS Integers, FiniteSets

CONSTANTS
    Scale,      \* parts per million times seconds in a millisecond (1000)
    ArgumentMax,\* u16::MAX                                        (65535)
    U32Bits     \* u32::BITS                                          (32)

(* What a bit stands for: 1u32 << n. *)
TwoTo[n \in Nat] == IF n = 0 THEN 1 ELSE 2 * TwoTo[n - 1]

(* accuracy * 1000 does not saturate. *)
ASSUME PollAssumption ==
    /\ Scale \in Nat \ {0} /\ ArgumentMax \in Nat \ {0} /\ U32Bits \in Nat
    /\ ArgumentMax * Scale < TwoTo[U32Bits]

LeadingZeros(n) == Cardinality({bits \in 0 .. U32Bits - 1 : n < TwoTo[bits]})

(* Variants: the highest bit counted from one, and the two arguments       *)
(* exchanged.                                                              *)
IntervalRoundedUp(exact) == TwoTo[U32Bits - LeadingZeros(exact)]
ExactSwapped(tolerance, accuracy) == (tolerance * Scale) \div accuracy

(* Seconds until a clock that drifts by `tolerance` ppm is `accuracy` ms   *)
(* off, in whole seconds,                                                  *)
Exact(tolerance, accuracy) == (accuracy * Scale) \div tolerance

(* and rounded down to a power of two.                                     *)
Interval(exact) == TwoTo[U32Bits - LeadingZeros(exact) - 1]

CalculatePollInterval(tolerance, accuracy) ==
    IF tolerance = 0 \/ accuracy = 0 THEN [tag |-> "BadParameter"]
    ELSE IF Exact(tolerance, accuracy) = 0 THEN [tag |-> "ZeroPollInterval"]
    ELSE [tag |-> "Ok", seconds |-> Interval(Exact(tolerance, accuracy))]

-----------------------------------------------------------------------------
VARIABLES clockFreqTolerance, desiredAccuracy

vars == <<clockFreqTolerance, desiredAccuracy>>

Init == clockFreqTolerance = 0 /\ desiredAccuracy = 0

WorseClock ==
    /\ clockFreqTolerance < ArgumentMax
    /\ clockFreqTolerance' = clockFreqTolerance + 1
    /\ UNCHANGED desiredAccuracy

LessAccuracy ==
    /\ desiredAccuracy < ArgumentMax
    /\ desiredAccuracy' = desiredAccuracy + 1
    /\ UNCHANGED clockFreqTolerance

Next == WorseClock \/ LessAccuracy

Spec == Init /\ [][Next]_vars

-----------------------------------------------------------------------------
Answer == CalculatePollInterval(clockFreqTolerance, desiredAccuracy)

(* Drift in so many seconds, in units of a millisecond divided by Scale. *)
Drift(seconds) == seconds * clockFreqTolerance

(* Polling at the interval keeps the clock as accurate as was asked for,   *)
(* and no other power of two of seconds would do with less traffic; where  *)
(* there is no interval, a second is too long already.                     *)
LongestSafeInterval ==
    \/ /\ Answer.tag = "Ok"
       /\ \E bits \in 0 .. U32Bits - 1 : Answer.seconds = TwoTo[bits]
       /\ Drift(Answer.seconds) <= desiredAccuracy * Scale
       /\ Drift(2 * Answer.seconds) > desiredAccuracy * Scale
    \/ /\ Answer.tag = "ZeroPollInterval"
       /\ Drift(1) > desiredAccuracy * Scale
    \/ /\ Answer.tag = "BadParameter"
       /\ 0 \in {clockFreqTolerance, desiredAccuracy}

SecondsOf(answer) == IF answer.tag = "Ok" THEN answer.seconds ELSE 0

(* A server is never asked less often for a worse clock, nor more often    *)
(* for a smaller demand: no rounding step turns the order round.           *)
IntervalFollowsDemand ==
    [][ 0 \notin {clockFreqTolerance, desiredAccuracy} =>
          IF desiredAccuracy' = desiredAccuracy
          THEN SecondsOf(Answer') <= SecondsOf(Answer)
          ELSE SecondsOf(Answer') >= SecondsOf(Answer) ]_vars
=============================================================================
