------------------------- MODULE SntpUnixTimeProofs -------------------------
(***************************************************************************)
(* convert_to_unix_time is right for every reading of a clock that has     *)
(* been running since the UNIX epoch, for any widths and any pair of       *)
(* complementary era constants.                                            *)
(***************************************************************************)
EXTENDS SntpUnixTime, DivisionLemmas

(* What the assumptions say of the constants used here. *)
LEMMA Constants ==
    /\ FractionsMod \in Nat /\ FractionsMod > 0
    /\ SecondsMod \in Nat /\ SecondsMod > 0
    /\ FractionsPerUs \in Nat /\ FractionsPerUs > 0
    /\ UsPerSec \in Nat
    /\ FractionsMod <= FractionsPerUs * UsPerSec
    /\ UnixEpoch \in Nat /\ UnixEpoch < SecondsMod
    /\ Era1Start = SecondsMod - UnixEpoch
BY WidthsAssumption, UnixAssumption DEF SecondsMod

-----------------------------------------------------------------------------
(* The seconds: the two branches are one subtraction modulo the era. *)
LEMMA SecondsTrue ==
    ASSUME now \in Nat
    PROVE  UnixTime.seconds = SecondsSinceEpoch % SecondsMod
<1> DEFINE s == now \div FractionsMod
           w == s % SecondsMod
           p == s \div SecondsMod
<1>1. s \in Nat
  BY Constants, DivMod
<1>2. w \in 0 .. SecondsMod - 1 /\ p \in Nat /\ w = s - SecondsMod * p
  BY <1>1, Constants, DivMod
<1>3. UnixTime.seconds = IF w >= UnixEpoch THEN w - UnixEpoch
                         ELSE (Era1Start + w) % SecondsMod
  BY DEF UnixTime, ConvertToUnixTime, Stamp
<1> DEFINE e == SecondsSinceEpoch
<1>4. e = s - UnixEpoch
  BY DEF SecondsSinceEpoch
<1> HIDE DEF s, w, p, e
<1>5. CASE w >= UnixEpoch
  <2> DEFINE r == w - UnixEpoch
  <2>1. r \in 0 .. SecondsMod - 1
    BY <1>2, <1>5, Constants
  <2>2. e \in Int /\ e = r + SecondsMod * p
    BY <1>1, <1>2, <1>4, Constants
  <2> HIDE DEF r
  <2>3. e % SecondsMod = r
    BY <1>2, <2>1, <2>2, Constants, RemainderIs
  <2>4. QED
    BY <1>3, <1>5, <2>3 DEF r, e
<1>6. CASE ~ (w >= UnixEpoch)
  <2> DEFINE r == Era1Start + w
             k == p - 1
  <2>1. r \in 0 .. SecondsMod - 1 /\ r = SecondsMod - UnixEpoch + w
    BY <1>2, <1>6, Constants
  <2>2. e \in Int /\ k \in Int /\ e = r + SecondsMod * k
    <3>1. SecondsMod * k = SecondsMod * p - SecondsMod
      BY <1>2, Constants
    <3>2. SecondsMod * p \in Int
      BY <1>2, Constants
    <3>3. QED
      BY <1>1, <1>2, <1>4, <2>1, <3>1, <3>2, Constants
  <2> HIDE DEF r, k
  <2>3. e % SecondsMod = r
    BY <2>1, <2>2, Constants, RemainderIs
  <2>4. r % SecondsMod = r
    BY <2>1, Constants
  <2>5. QED
    BY <1>3, <1>6, <2>3, <2>4 DEF r, e
<1>7. QED
  BY <1>5, <1>6 DEF e

(* The microseconds: below a second, not ahead, and not far behind. *)
LEMMA MicrosecondsTrue ==
    ASSUME now \in Nat
    PROVE  /\ UnixTime.microseconds \in 0 .. UsPerSec - 1
           /\ TicksBehind >= 0
           /\ TicksBehind * FractionsPerUs < FractionsMod * (FractionsPerUs + DivisorExcess)
<1> DEFINE M == FractionsMod
           U == UsPerSec
           P == FractionsPerUs
           f == now % M
           c == f \div P
<1>1. f \in Nat /\ f < M
  BY Constants, DivMod
<1>2. c \in Nat /\ P * c <= f /\ f < P * c + P
  BY <1>1, Constants, DivMod
<1>3. c \in 0 .. U - 1
  <2>1. f < P * U /\ P * U \in Nat
    BY <1>1, Constants
  <2>2. QED
    BY <1>1, <2>1, Constants, QuotientBelow
<1>4. UnixTime.microseconds = c
  BY DEF UnixTime, ConvertToUnixTime, Stamp
<1>5. TicksBehind = f * U - c * M /\ DivisorExcess = U * P - M
  BY <1>4 DEF TicksBehind, Fraction, DivisorExcess
<1>6. M \in Nat /\ M > 0 /\ U \in Nat /\ P \in Nat /\ P > 0 /\ M <= P * U
  BY Constants
<1> HIDE DEF M, U, P, f, c
<1>7. f * U - c * M >= 0
  <2>1. c * M <= c * (P * U)
    BY <1>2, <1>6
  <2>2. c * (P * U) = (P * c) * U
    BY <1>2, <1>6
  <2>3. (P * c) * U <= f * U
    BY <1>1, <1>2, <1>6
  <2>4. c * M \in Int /\ f * U \in Int /\ c * (P * U) \in Int
    BY <1>1, <1>2, <1>6
  <2>5. QED
    BY <2>1, <2>2, <2>3, <2>4
<1>8. (f * U - c * M) * P < M * (P + (U * P - M))
  <2> DEFINE e == P * U - M
             b == f - P * c
  <2>1. e \in Nat /\ b \in Nat /\ b < P
    BY <1>1, <1>2, <1>6
  <2>2. (f * U - c * M) * P = f * e + M * b
    BY <1>1, <1>2, <1>6
  <2>3. M * (P + (U * P - M)) = M * P + M * e
    BY <1>6
  <2> HIDE DEF e, b
  <2>4. f * e <= M * e
    BY <1>1, <1>6, <2>1
  <2>5. M * b < M * P
    BY <1>6, <2>1
  <2>6. f * e \in Int /\ M * e \in Int /\ M * b \in Int /\ M * P \in Int
    BY <1>1, <1>6, <2>1
  <2>7. QED
    BY <2>2, <2>3, <2>4, <2>5, <2>6
<1>9. QED
  BY <1>3, <1>4, <1>5, <1>7, <1>8 DEF M, U, P

-----------------------------------------------------------------------------
(* The clock starts at the UNIX epoch and does not go back. *)
SinceEpoch == now \in Nat /\ now >= UnixEpoch * FractionsMod

LEMMA AlwaysSinceEpoch == Spec => []SinceEpoch
<1>1. Init => SinceEpoch
  BY Constants DEF Init, SinceEpoch
<1>2. SinceEpoch /\ [Next]_now => SinceEpoch'
  BY Constants DEF SinceEpoch, Next, Tick
<1>3. QED
  BY <1>1, <1>2, PTL DEF Spec

(* The UNIX time of every reading, in the first era, in the second and     *)
(* after the 32 bits of the result have wrapped, is the time since the     *)
(* epoch: convert_to_unix_time has no gap, overlap or jump at the wrap of  *)
(* 2036.                                                                   *)
THEOREM UnixTimeCorrect == Spec => []UnixTimeTrue
<1>1. SinceEpoch => UnixTimeTrue
  BY SecondsTrue, MicrosecondsTrue DEF SinceEpoch, UnixTimeTrue
<1>2. QED
  BY <1>1, AlwaysSinceEpoch, PTL

(* Until 32 bits are used up the seconds need no remainder. *)
LEMMA SecondsPlain ==
    ASSUME SinceEpoch, SecondsSinceEpoch < SecondsMod
    PROVE  SecondsSinceEpoch \in Nat /\ UnixTime.seconds = SecondsSinceEpoch
<1> DEFINE s == now \div FractionsMod
           e == SecondsSinceEpoch
<1>1. s \in Nat /\ now < FractionsMod * s + FractionsMod /\ now \in Nat
  BY Constants, DivMod DEF SinceEpoch
<1>2. s >= UnixEpoch
  <2> HIDE DEF s
  <2>1. ASSUME s + 1 <= UnixEpoch PROVE FALSE
    <3>1. FractionsMod * (s + 1) <= FractionsMod * UnixEpoch
      BY <1>1, <2>1, Constants
    <3>2. FractionsMod * (s + 1) = FractionsMod * s + FractionsMod
      BY <1>1, Constants
    <3>3. now >= FractionsMod * UnixEpoch
      BY Constants DEF SinceEpoch
    <3>4. FractionsMod * s \in Int /\ FractionsMod * UnixEpoch \in Int
      BY <1>1, Constants
    <3>5. QED
      BY <1>1, <3>1, <3>2, <3>3, <3>4, Constants
  <2>2. QED
    BY <1>1, <2>1, Constants
<1>3. e \in 0 .. SecondsMod - 1
  BY <1>1, <1>2, Constants DEF SecondsSinceEpoch
<1> HIDE DEF e
<1>4. e % SecondsMod = e
  BY <1>3, Constants
<1>5. QED
  BY <1>1, <1>3, <1>4, SecondsTrue DEF e

(* UNIX time does not run back on a clock that does not, in particular     *)
(* where the conversion changes its formula.                               *)
THEOREM UnixTimeAdvances == Spec => UnixNeverBack
<1> DEFINE NotBack == SecondsSinceEpoch' < SecondsMod =>
                        \/ UnixTime'.seconds > UnixTime.seconds
                        \/ /\ UnixTime'.seconds = UnixTime.seconds
                           /\ UnixTime'.microseconds >= UnixTime.microseconds
<1>1. SinceEpoch /\ SinceEpoch' /\ [Next]_now => [NotBack]_now
  <2> SUFFICES ASSUME SinceEpoch, SinceEpoch', Tick, SecondsSinceEpoch' < SecondsMod
               PROVE  \/ UnixTime'.seconds > UnixTime.seconds
                      \/ /\ UnixTime'.seconds = UnixTime.seconds
                         /\ UnixTime'.microseconds >= UnixTime.microseconds
    BY DEF Next
  <2> DEFINE s == now \div FractionsMod
             t == now' \div FractionsMod
             f == now % FractionsMod
             g == now' % FractionsMod
  <2>1. now \in Nat /\ now' \in Nat /\ now' = now + 1
    BY DEF SinceEpoch, Tick
  <2>2. s \in Nat /\ t \in Nat /\ s <= t
    BY <2>1, Constants, DivMod, QuotientMonotone
  <2>3. f \in Nat /\ g \in Nat /\ f = now - FractionsMod * s /\ g = now' - FractionsMod * t
    BY <2>1, Constants, DivMod
  <2>4. SecondsSinceEpoch = s - UnixEpoch /\ SecondsSinceEpoch' = t - UnixEpoch
    BY DEF SecondsSinceEpoch
  <2>5. /\ UnixTime.microseconds = f \div FractionsPerUs
        /\ UnixTime'.microseconds = g \div FractionsPerUs
    BY DEF UnixTime, ConvertToUnixTime, Stamp
  <2> HIDE DEF s, t, f, g
  <2>6. SecondsSinceEpoch < SecondsMod
    BY <2>2, <2>4, Constants
  <2>7. UnixTime.seconds = s - UnixEpoch
    BY <2>4, <2>6, SecondsPlain
  <2>8. UnixTime'.seconds = t - UnixEpoch
    <3>1. (SinceEpoch /\ SecondsSinceEpoch < SecondsMod => UnixTime.seconds = SecondsSinceEpoch)'
      BY SecondsPlain, PTL
    <3>2. QED
      BY <2>4, <3>1
  <2>9. CASE s < t
    BY <2>2, <2>7, <2>8, <2>9, Constants
  <2>10. CASE s = t
    <3>1. f <= g
      BY <2>1, <2>2, <2>3, <2>10, Constants
    <3>2. f \div FractionsPerUs <= g \div FractionsPerUs
      BY <2>3, <3>1, Constants, QuotientMonotone
    <3>3. f \div FractionsPerUs \in Nat /\ g \div FractionsPerUs \in Nat
      BY <2>3, Constants, DivMod
    <3>4. QED
      BY <2>5, <2>7, <2>8, <2>10, <3>2, <3>3
  <2>11. QED
    BY <2>2, <2>9, <2>10
<1>2. QED
  BY <1>1, AlwaysSinceEpoch, PTL DEF Spec, UnixNeverBack
=============================================================================
