---------------------------- MODULE SntpUnixTime ----------------------------
(***************************************************************************)
(* convert_to_unix_time, on the readings of a clock that runs from one     *)
(* UNIX epoch to where 32 bits of UNIX seconds end: across the wrap of the *)
(* timestamp's seconds (2036), where the conversion changes its formula,   *)
(* and across the wrap of its own result (2106).                           *)
(***************************************************************************)
EXTENDS SntpTime

CONSTANTS
    UnixEpoch,     \* TIME_AT_UNIX_EPOCH_SECS          (code: 2 208 988 800)
    Era1Start,     \* UNIX_TIME_SECS_AT_SNTP_ERA_1_...        (2 085 978 496)
    FractionsPerUs,\* FRACTION_VALUE_PER_MICROSECOND                  (4295)
    UsPerSec,      \*                                            (1 000 000)
    LastTick       \* bound: the clock stops here

(* "The two constants sum to exactly 2^32", and like the divisor of        *)
(* milliseconds that of microseconds is not too small.                     *)
ASSUME UnixAssumption ==
    /\ UnixEpoch \in Nat /\ UnixEpoch < SecondsMod
    /\ Era1Start = SecondsMod - UnixEpoch
    /\ FractionsPerUs \in Nat \ {0}
    /\ UsPerSec \in Nat \ {0}
    /\ FractionsMod <= FractionsPerUs * UsPerSec
    /\ LastTick \in Nat

(* Variants: the divisor rounded down instead of up, or era 1 forgotten. *)
ConvertToUnixTimeShortDivisor(t) ==
    [seconds      |-> IF t.seconds >= UnixEpoch THEN t.seconds - UnixEpoch
                      ELSE (Era1Start + t.seconds) % SecondsMod,
     microseconds |-> t.fractions \div (FractionsPerUs - 1)]
ConvertToUnixTimeSaturated(t) ==
    [seconds      |-> IF t.seconds >= UnixEpoch THEN t.seconds - UnixEpoch ELSE 0,
     microseconds |-> t.fractions \div FractionsPerUs]

(* Seconds from the epoch on are era 0, those below have wrapped into      *)
(* era 1 (u32::wrapping_add).                                              *)
ConvertToUnixTime(t) ==
    [seconds      |-> IF t.seconds >= UnixEpoch THEN t.seconds - UnixEpoch
                      ELSE (Era1Start + t.seconds) % SecondsMod,
     microseconds |-> t.fractions \div FractionsPerUs]

-----------------------------------------------------------------------------
VARIABLE now \* ticks since 1900, eras included

Init == now = UnixEpoch * FractionsMod

Tick ==
    /\ now < LastTick
    /\ now' = now + 1

Next == Tick

Spec == Init /\ [][Next]_now

-----------------------------------------------------------------------------
UnixTime == ConvertToUnixTime(Stamp(now))

(* Seconds and fractions of the clock since the UNIX epoch. *)
SecondsSinceEpoch == now \div FractionsMod - UnixEpoch
Fraction          == now % FractionsMod

(* The microseconds' distance to the clock, in parts of a tick (UsPerSec *)
(* of them), and by how much the divisor's second is too long.             *)
TicksBehind   == Fraction * UsPerSec - UnixTime.microseconds * FractionsMod
DivisorExcess == UsPerSec * FractionsPerUs - FractionsMod

(* The UNIX time is the time since the UNIX epoch, in whichever era the    *)
(* clock stands: the seconds exactly, to 32 bits; the microseconds less    *)
(* than a second, never ahead of the clock, and behind it by less than one *)
(* of rounding and what the divisor's excess makes of a second (7.6 in the *)
(* code: 4295 for 4294.967...).                                            *)
UnixTimeTrue ==
    /\ UnixTime.seconds = SecondsSinceEpoch % SecondsMod
    /\ UnixTime.microseconds \in 0 .. UsPerSec - 1
    /\ TicksBehind >= 0
    /\ TicksBehind * FractionsPerUs < FractionsMod * (FractionsPerUs + DivisorExcess)

(* UNIX time does not run back on a clock that does not - neither where    *)
(* the formula changes nor from one second to the next - until its 32 bits *)
(* are used up.                                                            *)
UnixNeverBack ==
    [][ SecondsSinceEpoch' < SecondsMod =>
          \/ UnixTime'.seconds > UnixTime.seconds
          \/ /\ UnixTime'.seconds = UnixTime.seconds
             /\ UnixTime'.microseconds >= UnixTime.microseconds ]_now
=============================================================================
