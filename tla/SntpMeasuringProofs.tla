------------------------ MODULE SntpMeasuringProofs ------------------------
(***************************************************************************)
(* Proofs about what the client measures on a real host: when a request    *)
(* has timed out and how far the clock is behind, for any host clock, any  *)
(* delays and any random bits, with datagrams lost, duplicated, reordered  *)
(* and late, the clock stepped, slewed and shared.                         *)
(***************************************************************************)
EXTENDS SntpSystemProofs

(* The observer tells apart all the ages that the properties are about.    *)
AgesToldApart == EraTicks - FractionsMod <= MaxAge

-----------------------------------------------------------------------------
(* Times in a clock that goes round                                        *)

(* Two times that the clock cannot tell apart: whole eras lie between.     *)
SameTick(a, b) == \E k \in Int : a - b = EraTicks * k

LEMMA SameTickSelf == \A a \in Int : SameTick(a, a)
<1>1. \A a \in Int : a - a = EraTicks * 0
  BY ClockConstants
<1>2. QED
  BY <1>1 DEF SameTick

(* Two times apart by as much as two such pairs together, or by as much as *)
(* one is more apart than the other.                                       *)
LEMMA SameTickJoined ==
    ASSUME NEW a \in Int, NEW b \in Int, NEW c \in Int, NEW d \in Int,
           NEW e \in Int, NEW f \in Int, SameTick(a, b), SameTick(c, d),
           e - f \in {(a - b) + (c - d), (a - b) - (c - d)}
    PROVE  SameTick(e, f)
<1>1. PICK i \in Int : a - b = EraTicks * i
  BY DEF SameTick
<1>2. PICK j \in Int : c - d = EraTicks * j
  BY DEF SameTick
<1>3. /\ EraTicks * (i + j) = EraTicks * i + EraTicks * j
      /\ EraTicks * (i - j) = EraTicks * i - EraTicks * j
  BY ClockConstants
<1>4. i + j \in Int /\ i - j \in Int
  OBVIOUS
<1>5. QED
  BY <1>1, <1>2, <1>3, <1>4 DEF SameTick

(* The clock's arithmetic drops whole eras. *)
LEMMA RemainderSameTick ==
    ASSUME NEW n \in Int
    PROVE  n % EraTicks \in Nat /\ SameTick(n % EraTicks, n)
<1> DEFINE E == EraTicks
           r == n % E
           q == n \div E
<1>1. E \in Nat /\ E > 0
  BY ClockConstants
<1> HIDE DEF E
<1>2. r \in 0 .. E - 1 /\ q \in Int /\ n = E * q + r
  BY <1>1
<1> HIDE DEF r, q
<1>3. r - n = E * (-q) /\ -q \in Int
  BY <1>1, <1>2
<1>4. QED
  BY <1>1, <1>2, <1>3 DEF SameTick, E, r

LEMMA ShorterSameTick ==
    ASSUME NEW n \in Int
    PROVE  Shorter(n) \in Int /\ SameTick(Shorter(n), n)
<1>1. n % EraTicks \in Nat /\ SameTick(n % EraTicks, n)
  BY RemainderSameTick
<1>2. PICK k \in Int : (n % EraTicks) - n = EraTicks * k
  BY <1>1 DEF SameTick
<1>3. CASE Shorter(n) = n % EraTicks
  BY <1>1, <1>3
<1>4. CASE Shorter(n) = (n % EraTicks) - EraTicks
  <2>1. EraTicks \in Int /\ EraTicks * (k - 1) = EraTicks * k - EraTicks
        /\ EraTicks * k \in Int /\ k - 1 \in Int
    BY ClockConstants
  <2>2. Shorter(n) - n = EraTicks * (k - 1) /\ Shorter(n) \in Int
    BY <1>1, <1>2, <1>4, <2>1
  <2>3. QED
    BY <2>1, <2>2 DEF SameTick
<1>5. QED
  BY <1>3, <1>4 DEF Shorter

-----------------------------------------------------------------------------
(* Ticks and milliseconds in parts                                         *)

(* More ticks, or milliseconds, are more parts. *)
LEMMA TicksOrder ==
    ASSUME NEW a \in Int, NEW b \in Int
    PROVE  Ticks(a) \in Int /\ Ticks(b) \in Int /\ (a <= b <=> Ticks(a) <= Ticks(b))
<1> DEFINE u == MsPerSec
<1>1. u \in Nat /\ u > 0
  BY UnitTypes
<1> HIDE DEF u
<1>2. a * u \in Int /\ b * u \in Int
  BY <1>1
<1>3. ASSUME a <= b PROVE a * u <= b * u
  BY <1>1, <1>3
<1>4. ASSUME a > b PROVE a * u > b * u
  <2>1. (a - b) * u >= 1 * u /\ (a - b) * u = a * u - b * u
    BY <1>1, <1>4
  <2>2. QED
    BY <1>1, <1>2, <2>1
<1>5. QED
  BY <1>2, <1>3, <1>4 DEF Ticks, u

LEMMA MillisOrder ==
    ASSUME NEW a \in Int, NEW b \in Int
    PROVE  Millis(a) \in Int /\ Millis(b) \in Int /\ (a <= b <=> Millis(a) <= Millis(b))
<1> DEFINE u == FractionsMod
<1>1. u \in Nat /\ u > 0
  BY UnitTypes
<1> HIDE DEF u
<1>2. a * u \in Int /\ b * u \in Int
  BY <1>1
<1>3. ASSUME a <= b PROVE a * u <= b * u
  BY <1>1, <1>3
<1>4. ASSUME a > b PROVE a * u > b * u
  <2>1. (a - b) * u >= 1 * u /\ (a - b) * u = a * u - b * u
    BY <1>1, <1>4
  <2>2. QED
    BY <1>1, <1>2, <2>1
<1>5. QED
  BY <1>2, <1>3, <1>4 DEF Millis, u

(* A second and an era are as long in milliseconds as in ticks. *)
LEMMA EraInParts ==
    /\ \A s \in Int : Millis(s * MsPerSec) = Ticks(FractionsMod * s)
    /\ Millis(TotalMillisecondsInNtpEra) = Ticks(EraTicks)
    /\ Millis(ClockOffsetMaxTimeDifference) + Millis(ClockOffsetMaxTimeDifference)
         = Ticks(EraTicks)
<1> DEFINE F == FractionsMod
           M == MsPerSec
           S == SecondsMod
           H == ClockOffsetMaxTimeDifference
<1>1. F \in Nat /\ M \in Nat /\ S \in Nat /\ H \in Nat
  BY UnitTypes, EraLength
<1>2. S * M = 2 * H /\ TotalMillisecondsInNtpEra = 2 * H /\ EraTicks = S * F
  BY EraLength DEF EraTicks
<1> HIDE DEF F, M, S, H
<1>3. ASSUME NEW s \in Int
      PROVE  (s * M) * F = (F * s) * M
  BY <1>1
<1>4. (S * M) * F = (S * F) * M
  BY <1>1
<1>5. (2 * H) * F = H * F + H * F
  BY <1>1
<1>6. QED
  BY <1>2, <1>3, <1>4, <1>5 DEF Ticks, Millis, F, M, S, H

LEMMA LossType == Loss \in Nat
<1> DEFINE F == FractionsMod
           D == FractionsPerMs
           M == MsPerSec
<1>1. F \in Nat /\ D \in Nat /\ D > 0 /\ M \in Nat /\ M > 0 /\ F <= D * M
  BY WidthsAssumption
<1> HIDE DEF F, D, M
<1>2. (D - 1) * M \in Nat /\ D * M - F \in Nat /\ M - 1 \in Nat
  BY <1>1
<1>3. (D * M - F) * (M - 1) \in Nat
  BY <1>2
<1>4. QED
  BY <1>2, <1>3 DEF Loss, Ticks, F, D, M

(* What a fraction loses when it becomes milliseconds: by the divisor,     *)
(* which is too large, and by the remainder of the division.               *)
LEMMA FractionInParts ==
    ASSUME NEW f \in 0 .. FractionsMod - 1
    PROVE  /\ FractionsToMs(f) \in Nat
           /\ Millis(FractionsToMs(f)) <= Ticks(f)
           /\ Ticks(f) <= Millis(FractionsToMs(f)) + Loss
<1> DEFINE F == FractionsMod
           D == FractionsPerMs
           M == MsPerSec
           q == FractionsToMs(f)
           rest == f - D * q
           excess == D * M - F
<1>1. F \in Nat /\ D \in Nat /\ D > 0 /\ M \in Nat /\ F <= D * M
  BY WidthsAssumption
<1>2. f \in Nat /\ q \in 0 .. M - 1
  BY <1>1, FractionsBelowSecond
<1>3. D * q <= f /\ f < D * q + D
  BY <1>1, <1>2, DivMod DEF FractionsToMs
<1> HIDE DEF F, D, M, q
<1>4. rest \in Nat /\ rest <= D - 1 /\ excess \in Nat /\ D * q \in Int
  BY <1>1, <1>2, <1>3
<1>5. f * M = q * F + excess * q + rest * M
  <2>1. f = D * q + rest
    BY <1>2, <1>4
  <2>2. f * M = (D * q) * M + rest * M
    BY <1>1, <1>4, <2>1
  <2>3. excess * q = (D * q) * M - q * F
    BY <1>1, <1>2
  <2> HIDE DEF rest, excess
  <2>4. /\ (D * q) * M \in Int /\ rest * M \in Int /\ q * F \in Int /\ excess * q \in Int
    BY <1>1, <1>2, <1>4
  <2>5. QED
    BY <2>2, <2>3, <2>4
<1> HIDE DEF rest, excess
<1>6. excess * q \in Nat /\ excess * q <= excess * (M - 1)
  BY <1>1, <1>2, <1>4
<1>7. rest * M \in Nat /\ rest * M <= (D - 1) * M
  BY <1>1, <1>4
<1>8. Loss = (D - 1) * M + excess * (M - 1)
  BY DEF Loss, Ticks, excess, D, M, F
<1>9. /\ q * F \in Int /\ f * M \in Int /\ (D - 1) * M \in Int /\ excess * (M - 1) \in Int
  BY <1>1, <1>2, <1>4
<1>10. q * F <= f * M /\ f * M <= q * F + Loss
  BY <1>5, <1>6, <1>7, <1>8, <1>9
<1>11. QED
  BY <1>2, <1>10 DEF Millis, Ticks, q, F, M

(* A reading loses no more than its fraction. *)
LEMMA MillisecondsOf ==
    ASSUME NEW ticks \in Nat
    PROVE  /\ TrueMs(ticks) \in Nat
           /\ Millis(TrueMs(ticks)) <= Ticks(ticks)
           /\ Ticks(ticks) <= Millis(TrueMs(ticks)) + Loss
<1> DEFINE F == FractionsMod
           M == MsPerSec
           s == SecondOf(ticks)
           f == FractionOf(ticks)
           q == FractionsToMs(f)
<1>1. /\ s \in Nat /\ f \in 0 .. F - 1
      /\ ticks = F * s + f /\ TrueMs(ticks) = s * M + q
  BY ReadingOf
<1>2. F \in Nat /\ M \in Nat
  BY UnitTypes
<1>3. q \in Nat /\ Millis(q) <= Ticks(f) /\ Ticks(f) <= Millis(q) + Loss
  BY <1>1, FractionInParts
<1>4. Millis(s * M) = Ticks(F * s)
  BY <1>1, EraInParts
<1> DEFINE wholeMs    == s * M
           wholeTicks == F * s
<1> HIDE DEF F, M, s, f, q
<1>5. wholeMs \in Nat /\ wholeTicks \in Nat /\ f \in Nat
  BY <1>1, <1>2
<1>6. Millis(wholeMs) = Ticks(wholeTicks) /\ ticks = wholeTicks + f /\ TrueMs(ticks) = wholeMs + q
  BY <1>1, <1>4
<1> HIDE DEF wholeMs, wholeTicks
<1>7. Millis(wholeMs + q) = Millis(wholeMs) + Millis(q) /\ Millis(wholeMs) \in Int
      /\ Millis(q) \in Int
  BY <1>3, <1>5, UnitTypes DEF Millis
<1>8. Ticks(wholeTicks + f) = Ticks(wholeTicks) + Ticks(f) /\ Ticks(f) \in Int
  BY <1>5, UnitTypes DEF Ticks
<1>9. QED
  BY <1>3, <1>5, <1>6, <1>7, <1>8, LossType

(* The difference of two readings is the difference of the clocks to what  *)
(* one of them loses, whichever eras they are in.                          *)
LEMMA DifferenceInParts ==
    ASSUME NEW there \in Nat, NEW here \in Nat, NEW delta \in Int,
           SameTick(there, here + delta),
           2 * (Ticks(AbsoluteOf(delta)) + Loss) < Ticks(EraTicks)
    PROVE  LET ms == SafeTimeDifference(Stamp(there), Stamp(here))
           IN  /\ ms \in Int
               /\ Millis(ms) <= Ticks(delta) + Loss
               /\ Millis(ms) >= Ticks(delta) - Loss
<1> DEFINE T == TotalMillisecondsInNtpEra
           H == ClockOffsetMaxTimeDifference
           a == TrueMs(there)
           b == TrueMs(here)
<1>1. PICK k \in Int : there - (here + delta) = EraTicks * k
  BY DEF SameTick
<1>2. /\ a \in Nat /\ Millis(a) <= Ticks(there) /\ Ticks(there) <= Millis(a) + Loss
      /\ StandsFor(Stamp(there), a)
  BY MillisecondsOf, StampStandsFor
<1>3. /\ b \in Nat /\ Millis(b) <= Ticks(here) /\ Ticks(here) <= Millis(b) + Loss
      /\ StandsFor(Stamp(here), b)
  BY MillisecondsOf, StampStandsFor
<1>4. T \in Nat /\ H \in Nat /\ EraTicks \in Nat
  BY EraLength, ClockConstants
<1>5. Millis(T) = Ticks(EraTicks) /\ Millis(H) + Millis(H) = Ticks(EraTicks)
  BY EraInParts
(* The there's time, moved to the era that the difference is about. *)
<1> DEFINE c == a - T * k
           ms == c - b
<1>6. StandsFor(Stamp(there), c)
  <2>1. PICK eras \in Int : a = AsMillis(Stamp(there)) + T * eras
    BY <1>2 DEF StandsFor
  <2>2. Stamp(there) \in Timestamp
    BY <1>2 DEF StandsFor
  <2>3. AsMillis(Stamp(there)) \in Int
    BY <2>2, AsMillisRange, EraLength
  <2> HIDE DEF T, a
  <2>4. T * (eras - k) = T * eras - T * k /\ T * eras \in Int /\ T * k \in Int
    BY <1>4
  <2>5. c = AsMillis(Stamp(there)) + T * (eras - k) /\ eras - k \in Int
    BY <2>1, <2>3, <2>4
  <2>6. QED
    BY <2>2, <2>5 DEF StandsFor, T
<1>7. Millis(T * k) = Ticks(there) - (Ticks(here) + Ticks(delta))
  <2>1. Millis(T * k) = Ticks(EraTicks * k)
    <3> DEFINE F == FractionsMod
               M == MsPerSec
               E == EraTicks
    <3>1. F \in Nat /\ M \in Nat /\ E \in Nat /\ T * F = E * M
      BY <1>4, <1>5, UnitTypes DEF Millis, Ticks
    <3> HIDE DEF F, M, E, T
    <3>2. (T * k) * F = (T * F) * k /\ (E * k) * M = (E * M) * k
      BY <1>4, <3>1
    <3>3. QED
      BY <3>1, <3>2 DEF Millis, Ticks, F, M, E
  <2>2. here + delta \in Int /\ Ticks(there - (here + delta)) = Ticks(there) - Ticks(here + delta)
    BY UnitTypes DEF Ticks
  <2>3. Ticks(here + delta) = Ticks(here) + Ticks(delta)
    BY UnitTypes DEF Ticks
  <2>4. QED
    BY <1>1, <2>1, <2>2, <2>3
<1> HIDE DEF T, H, a, b
<1>8. c \in Int /\ T * k \in Int /\ Millis(c) = Millis(a) - Millis(T * k)
  BY <1>2, <1>4, UnitTypes DEF Millis
<1> HIDE DEF c
<1>9. ms \in Int /\ Millis(ms) = Millis(c) - Millis(b) /\ Millis(a) \in Int /\ Millis(b) \in Int
  BY <1>2, <1>3, <1>8, UnitTypes DEF Millis
<1> HIDE DEF ms
<1>10. Ticks(there) \in Int /\ Ticks(here) \in Int /\ Ticks(delta) \in Int
  BY TicksOrder
<1>11. Millis(ms) <= Ticks(delta) + Loss /\ Millis(ms) >= Ticks(delta) - Loss
  BY <1>2, <1>3, <1>7, <1>8, <1>9, <1>10, LossType
<1>12. WithinHalfEra(ms)
  <2> DEFINE size == AbsoluteOf(delta)
             away == 0 - delta
             least == 0 - H
  <2>1. size \in Int /\ away \in Int /\ delta <= size /\ away <= size
    BY DEF AbsoluteOf
  <2>2. Ticks(away) = -Ticks(delta)
    <3>1. Ticks(0 - delta) = Ticks(0) - Ticks(delta) /\ Ticks(0) = 0
      BY UnitTypes DEF Ticks
    <3>2. QED
      BY <1>10, <3>1
  <2>3. Millis(least) = -Millis(H) /\ Millis(H) \in Int /\ least \in Int
    <3>1. Millis(0 - H) = Millis(0) - Millis(H) /\ Millis(0) = 0 /\ Millis(H) \in Int
      BY <1>4, UnitTypes DEF Millis
    <3>2. QED
      BY <1>4, <3>1
  <2>4. 2 * (Ticks(size) + Loss) < Ticks(EraTicks)
    OBVIOUS
  <2> HIDE DEF size, away, least
  <2>5. Ticks(delta) <= Ticks(size) /\ Ticks(away) <= Ticks(size) /\ Ticks(size) \in Int
    BY <2>1, TicksOrder
  <2>6. Millis(ms) \in Int /\ Ticks(EraTicks) \in Int
    BY <1>4, <1>9, MillisOrder, TicksOrder
  <2>7. Millis(ms) < Millis(H) /\ Millis(ms) > Millis(least)
    BY <1>5, <1>10, <1>11, <2>2, <2>3, <2>4, <2>5, <2>6, LossType
  <2>8. ~ (H <= ms) /\ ~ (ms <= least)
    <3>1. H <= ms => Millis(H) <= Millis(ms)
      BY <1>4, <1>9, MillisOrder
    <3>2. ms <= least => Millis(ms) <= Millis(least)
      BY <1>9, <2>3, MillisOrder
    <3>3. QED
      BY <2>3, <2>6, <2>7, <3>1, <3>2
  <2>9. QED
    BY <1>4, <1>9, <2>8 DEF WithinHalfEra, H, least
<1>13. SafeTimeDifference(Stamp(there), Stamp(here)) = ms
  BY <1>2, <1>3, <1>6, <1>8, <1>12, DifferenceOfTimes DEF ms, b
<1>14. QED
  BY <1>9, <1>11, <1>13

(* The time since a request is measured to what a reading loses, and too   *)
(* short by the request's random bits.                                     *)
LEMMA ElapsedInParts ==
    ASSUME NEW from \in Nat, NEW to \in Nat, from <= to,
           to - from < (SecondsMod - 1) * FractionsMod,
           NEW t \in Timestamp, ReadAt(t, from)
    PROVE  LET ms == CalculateElapsedMs(Stamp(to), t)
           IN  /\ ms \in Int
               /\ Millis(ms) <= Ticks(to - from) + Loss
               /\ Ticks(to - from) <= Millis(ms) + Loss + Ticks(FractionsPerMs - 1)
<1> DEFINE F == FractionsMod
           D == FractionsPerMs
           M == MsPerSec
           r == t.fractions
           f == FractionOf(to)
           g == FractionOf(from)
           n == SecondOf(to)
           s == SecondOf(from)
           rest == PartialMs(r, f)
           ms == CalculateElapsedMs(Stamp(to), t)
           bits == r - g
<1>1. ms = (n - s) * M + rest
  BY ElapsedBetween
<1>2. n \in Nat /\ f \in 0 .. F - 1 /\ to = F * n + f
  BY ReadingOf
<1>3. s \in Nat /\ g \in 0 .. F - 1 /\ from = F * s + g
  BY ReadingOf
<1>4. g <= r /\ r < g + D
  BY ReadingOf DEF ReadAt
<1>5. r \in 0 .. F - 1 /\ F \in Nat /\ D \in Nat /\ D > 0 /\ M \in Nat
  BY UnitTypes DEF Timestamp
<1>6. /\ rest \in Int
      /\ Millis(rest) <= Ticks(f - r) + Loss
      /\ Millis(rest) >= Ticks(f - r) - Loss
  <2>1. CASE f > r
    <3> DEFINE q == FractionsToMs(f - r)
    <3>1. f - r \in 0 .. F - 1
      BY <1>2, <1>5, <2>1
    <3>2. q \in Nat /\ Millis(q) <= Ticks(f - r) /\ Ticks(f - r) <= Millis(q) + Loss
      BY <3>1, FractionInParts
    <3>3. rest = q
      BY <2>1 DEF PartialMs
    <3>4. f - r \in Int
      BY <1>5, <3>1
    <3> HIDE DEF q, rest, f, r
    <3>5. Millis(q) \in Int /\ Ticks(f - r) \in Int
      BY <3>2, <3>4, MillisOrder, TicksOrder
    <3>6. QED
      BY <3>2, <3>3, <3>5, LossType
  <2>2. CASE ~ (f > r)
    <3> DEFINE q == FractionsToMs(r - f)
    <3>1. r - f \in 0 .. F - 1 /\ f \in Int /\ r \in Int
      BY <1>2, <1>5, <2>2
    <3>2. q \in Nat /\ Millis(q) <= Ticks(r - f) /\ Ticks(r - f) <= Millis(q) + Loss
      BY <3>1, FractionInParts
    <3>3. rest = 0 - q
      <4>1. rest = -q
        BY <2>2 DEF PartialMs
      <4>2. QED
        BY <3>2, <4>1
    <3> HIDE DEF q, rest, f, r
    <3>4. /\ Millis(0 - q) = Millis(0) - Millis(q) /\ Millis(0) = 0 /\ Millis(q) \in Int
      BY <1>5, <3>2, UnitTypes DEF Millis
    <3>5. /\ Ticks(r - f) = Ticks(r) - Ticks(f) /\ Ticks(f - r) = Ticks(f) - Ticks(r)
          /\ Ticks(r) \in Int /\ Ticks(f) \in Int
      BY <3>1, UnitTypes DEF Ticks
    <3>6. QED
      BY <3>2, <3>3, <3>4, <3>5, LossType
  <2>3. QED
    BY <2>1, <2>2
<1>7. Millis((n - s) * M) = Ticks(F * (n - s))
  BY <1>2, <1>3, EraInParts
<1> DEFINE wholeMs    == (n - s) * M
           wholeTicks == F * (n - s)
           part       == f - r
<1> HIDE DEF F, D, M, r, f, g, n, s, rest, ms
<1>8. wholeMs \in Int /\ wholeTicks \in Int /\ part \in Int /\ bits \in Int
  BY <1>2, <1>3, <1>5
<1>9. Millis(wholeMs) = Ticks(wholeTicks) /\ ms = wholeMs + rest
      /\ to - from = wholeTicks + part + bits
      /\ Millis(rest) <= Ticks(part) + Loss /\ Millis(rest) >= Ticks(part) - Loss
  <2>1. F * (n - s) = F * n - F * s /\ F * n \in Int /\ F * s \in Int
    BY <1>2, <1>3, <1>5
  <2>2. to - from = wholeTicks + part + bits
    BY <1>2, <1>3, <1>5, <2>1
  <2>3. QED
    BY <1>1, <1>6, <1>7, <2>2
<1>10. 0 <= bits /\ bits <= D - 1 /\ D - 1 \in Int
  BY <1>3, <1>4, <1>5
<1> HIDE DEF wholeMs, wholeTicks, part, bits
<1>11. Millis(wholeMs + rest) = Millis(wholeMs) + Millis(rest) /\ Millis(rest) \in Int
  BY <1>6, <1>8, UnitTypes DEF Millis
<1>12. Ticks(to - from) = Ticks(wholeTicks) + Ticks(part) + Ticks(bits)
       /\ Ticks(wholeTicks) \in Int /\ Ticks(part) \in Int /\ Ticks(bits) \in Int
  <2> DEFINE most == wholeTicks + part
  <2>1. most \in Int /\ Ticks(most) = Ticks(wholeTicks) + Ticks(part)
        /\ Ticks(wholeTicks) \in Int /\ Ticks(part) \in Int
    BY <1>8, UnitTypes DEF Ticks
  <2>2. to - from = most + bits
    BY <1>9
  <2> HIDE DEF most
  <2>3. Ticks(most + bits) = Ticks(most) + Ticks(bits) /\ Ticks(bits) \in Int
    BY <1>8, <2>1, UnitTypes DEF Ticks
  <2>4. QED
    BY <2>1, <2>2, <2>3
<1>13. Ticks(bits) >= 0 /\ Ticks(bits) <= Ticks(D - 1) /\ Ticks(D - 1) \in Int
  <2> DEFINE most == D - 1
  <2>1. most \in Int /\ bits <= most
    BY <1>10
  <2> HIDE DEF most
  <2>2. Ticks(bits) <= Ticks(most) /\ Ticks(most) \in Int
    BY <1>8, <2>1, TicksOrder
  <2>3. Ticks(0) = 0 /\ Ticks(0) <= Ticks(bits)
    <3>1. Ticks(0) = 0
      BY UnitTypes DEF Ticks
    <3>2. 0 <= bits <=> Ticks(0) <= Ticks(bits)
      BY <1>8, TicksOrder
    <3>3. QED
      BY <1>10, <3>1, <3>2
  <2>4. QED
    BY <1>8, <1>12, <2>2, <2>3 DEF most
<1>14. ms \in Int
  BY <1>6, <1>8, <1>9
<1>15. /\ Millis(ms) <= Ticks(to - from) + Loss
       /\ Ticks(to - from) <= Millis(ms) + Loss + Ticks(D - 1)
  BY <1>9, <1>11, <1>12, <1>13, LossType
<1>16. QED
  BY <1>14, <1>15 DEF D, ms

-----------------------------------------------------------------------------
(* The inductive invariant                                                 *)

(* While the observer still counts, it knows when the request was made:    *)
(* its time is what the clock read, and the clock has since advanced by    *)
(* the request's age and by what other clients and slewing added to it.    *)
Counted == ~ IsZero(lastRequest) /\ sinceRequest < MaxAge

RequestAge ==
    Counted => \E reading \in Nat :
        /\ ReadAt(lastRequest, reading)
        /\ SameTick(clock, reading + sinceRequest + gained)

(* A server read its clock twice at that time to answer. *)
Served(packet, time) ==
    \E at \in Nat : /\ packet.receive = Stamp(at) /\ packet.transmit = Stamp(at)
                    /\ SameTick(at, time)

IsAnswer(packet) == packet.mode = "server" /\ packet.origin = lastRequest

ServedSince(packet) == \E age \in 0 .. sinceRequest : Served(packet, truth - age)

(* Whatever answers the request was served after it was made, however long *)
(* it has been under way.                                                  *)
AnswersServed ==
    Counted =>
        /\ \A d \in net \cup socket : IsAnswer(d.packet) => ServedSince(d.packet)
        /\ pc = "rxTime" /\ IsAnswer(buffer) => ServedSince(buffer)

(* And the reading of the clock that goes with it was taken after that,    *)
(* `wait` ticks ago, in which slewing added `slewed` ticks to the clock.   *)
ReadAgo(t, wait, slewed) == \E at \in Nat : t = Stamp(at) /\ SameTick(at, clock - wait - slewed)

AnswerRead ==
    Counted /\ pc \in {"validateAuth", "adjust"} /\ IsAnswer(buffer) =>
        \E age \in 0 .. sinceRequest : \E wait \in 0 .. age : \E slewed \in -wait .. wait :
            Served(buffer, truth - age) /\ ReadAgo(receivedAt, wait, slewed)

Answered == AnswersServed /\ AnswerRead

Measured == RequestAge /\ Answered

LEMMA MeasuredTypes ==
    ASSUME TypeOKSystem
    PROVE  /\ clock \in Nat /\ truth \in Nat /\ gained \in Int
           /\ sinceRequest \in Nat /\ sinceRequest <= MaxAge /\ MaxAge \in Nat
           /\ lastRequest \in Timestamp /\ receivedAt \in Timestamp /\ buffer \in Packet
BY ClockConstants, SystemAssumption DEF TypeOKSystem, TypeOK

LEMMA ServedSame ==
    ASSUME NEW packet, NEW a \in Int, NEW b \in Int, Served(packet, a), SameTick(a, b)
    PROVE  Served(packet, b)
<1>1. PICK at \in Nat : /\ packet.receive = Stamp(at) /\ packet.transmit = Stamp(at)
                        /\ SameTick(at, a)
  BY DEF Served
<1>2. SameTick(at, b)
  <2>1. at - b = (at - a) + (a - b)
    BY <1>1
  <2>2. QED
    BY <1>1, <2>1, SameTickJoined
<1>3. QED
  BY <1>1, <1>2 DEF Served

LEMMA InitMeasured == InitSystem => Measured
BY DEF InitSystem, Init, Measured, Answered, RequestAge, AnswersServed, AnswerRead,
       Counted, IsZero, ZeroTime

-----------------------------------------------------------------------------
(* The age of the request                                                  *)

(* The clock moves, and the observer keeps the books of it. *)
LEMMA ClockMoves ==
    ASSUME SysInv, RequestAge, lastRequest' = lastRequest,
           NEW step \in Int, NEW passed \in Nat,
           clock' \in Int, SameTick(clock', clock + step),
           gained' \in Int, SameTick(gained', gained + step - passed),
           sinceRequest' = sinceRequest + passed
    PROVE  RequestAge'
<1>1. /\ clock \in Nat /\ gained \in Int /\ sinceRequest \in Nat /\ MaxAge \in Nat
  BY MeasuredTypes DEF SysInv
<1>2. SUFFICES ASSUME Counted
               PROVE  \E reading \in Nat :
                         /\ ReadAt(lastRequest, reading)
                         /\ SameTick(clock', reading + sinceRequest' + gained')
  BY <1>1 DEF RequestAge, Counted
<1>3. PICK reading \in Nat : /\ ReadAt(lastRequest, reading)
                             /\ SameTick(clock, reading + sinceRequest + gained)
  BY <1>2 DEF RequestAge
<1> DEFINE madeThen == reading + sinceRequest + gained
           madeNow  == reading + sinceRequest' + gained'
           between  == madeThen + step
<1>4. madeThen \in Int /\ madeNow \in Int /\ between \in Int
      /\ clock + step \in Int /\ gained + step - passed \in Int
  BY <1>1
<1>5. clock' - between = (clock' - (clock + step)) + (clock - madeThen)
  BY <1>1
<1>6. clock' - madeNow = (clock' - between) - (gained' - (gained + step - passed))
  BY <1>1
<1> HIDE DEF madeThen, madeNow, between
<1>7. SameTick(clock, madeThen)
  BY <1>3 DEF madeThen
<1>8. SameTick(clock', between)
  BY <1>1, <1>4, <1>5, <1>7, SameTickJoined
<1>9. SameTick(clock', madeNow)
  BY <1>1, <1>4, <1>6, <1>8, SameTickJoined
<1>10. QED
  BY <1>3, <1>9 DEF madeNow

(* In a tick, however many more the clock advances or goes back in it. *)
LEMMA TickAge ==
    ASSUME SysInv, RequestAge, lastRequest' = lastRequest, NEW more \in Int,
           clock' = (clock + 1 + more) % EraTicks, gained' = Shorter(gained + more),
           sinceRequest' = IF sinceRequest = MaxAge THEN sinceRequest ELSE sinceRequest + 1
    PROVE  RequestAge'
<1>1. clock \in Nat /\ gained \in Int /\ sinceRequest \in Nat /\ MaxAge \in Nat
  BY MeasuredTypes DEF SysInv
<1>2. CASE sinceRequest = MaxAge
  BY <1>1, <1>2 DEF RequestAge, Counted
<1>3. CASE sinceRequest # MaxAge
  <2>1. clock + 1 + more \in Int /\ gained + more \in Int
        /\ clock + 1 + more = clock + (1 + more) /\ gained + more = gained + (1 + more) - 1
    BY <1>1
  <2>2. clock' \in Int /\ SameTick(clock', clock + (1 + more))
    BY <2>1, RemainderSameTick
  <2>3. gained' \in Int /\ SameTick(gained', gained + (1 + more) - 1)
    BY <2>1, ShorterSameTick
  <2>4. 1 + more \in Int /\ sinceRequest' = sinceRequest + 1
    BY <1>3
  <2>5. QED
    BY <2>2, <2>3, <2>4, ClockMoves
<1>4. QED
  BY <1>2, <1>3

(* A new request is the reading of the clock at its age of zero. *)
LEMMA MakeRequestAge ==
    ASSUME SysInv, MakeRequest
    PROVE  RequestAge'
<1>1. PICK mask \in RandomMasks : RequestTime(Now, mask)
  BY DEF MakeRequest
<1>2. sinceRequest' = 0 /\ gained' = 0 /\ clock' = clock
  BY DEF MakeRequest
<1>3. CASE IsZero(lastRequest')
  BY <1>3 DEF RequestAge, Counted
<1>4. CASE lastRequest' \in Unpredictable(Now, mask)
  <2>1. clock \in Nat /\ Now \in Timestamp
    BY MeasuredTypes, ReadingTypes DEF SysInv
  <2>2. PICK f \in BitOr(Now.fractions, mask) : lastRequest' = [Now EXCEPT !.fractions = f]
    BY <1>4 DEF Unpredictable
  <2>3. lastRequest'.seconds = Now.seconds /\ lastRequest'.fractions = f
    BY <2>1, <2>2 DEF Timestamp
  <2>4. Now.fractions \in Nat /\ mask \in Nat /\ mask < FractionsPerMs
        /\ FractionsPerMs \in Nat
    BY <2>1, UnitTypes, RandomAssumption, SystemAssumption DEF Timestamp
  <2>5. Now.fractions <= f /\ f < Now.fractions + FractionsPerMs
    BY <2>4 DEF BitOr
  <2>6. ReadAt(lastRequest', clock)
    BY <2>3, <2>5 DEF ReadAt, Now
  <2>7. SameTick(clock, clock + 0 + 0)
    BY <2>1, SameTickSelf
  <2>8. QED
    BY <1>2, <2>1, <2>6, <2>7 DEF RequestAge
<1>5. QED
  BY <1>1, <1>3, <1>4 DEF RequestTime

(* No other step of the client makes a request, or touches the clock while *)
(* it remembers one.                                                       *)
LEMMA ClientAge ==
    ASSUME SysInv, RequestAge, ClientStep
    PROVE  RequestAge'
<1>1. CASE MakeRequest
  BY <1>1, MakeRequestAge
<1>2. CASE SetClock
  BY <1>2 DEF SetClock, AdjustClock, ZeroTime, IsZero, RequestAge, Counted
<1>3. CASE InnerStep \/ Transmit \/ ReadDatagram
  <2>1. UNCHANGED <<clock, sinceRequest, gained>>
    BY <1>3 DEF InnerStep, Transmit, ReadDatagram, observers
  <2>2. lastRequest' \in {lastRequest, ZeroTime}
    <3>1. CASE ReceivedAt(Now) \/ ValidateServerAuth
      BY <3>1 DEF ReceivedAt, ValidateServerAuth, JudgeResponse, AfterRejection
    <3>2. CASE ~ (ReceivedAt(Now) \/ ValidateServerAuth)
      <4>1. CASE Transmit \/ ReadDatagram
        BY <4>1 DEF Transmit, SendAll, ReadDatagram, RecvPacket, fields
      <4>2. CASE Ask \/ Listen \/ Resolve \/ GenerateClientAuth
        BY <4>2 DEF Ask, Listen, SendTimeRequest, ReceiveTimeResponse, Call, Resolve,
                    ResolveDns, GenerateClientAuth, fields
      <4>3. CASE SendNothing \/ SendFails \/ FindNothing \/ RecvFails(buffer)
        BY <4>3 DEF SendNothing, SendFails, FindNothing, RecvNothing, RecvFails, fields
      <4>4. CASE SendStart(Now) \/ SendRetry(Now) \/ ReceiveStart(Now) \/ RecvRetry(Now)
        BY <4>4 DEF SendStart, SendRetry, ReceiveStart, RecvRetry, fields
      <4>5. QED
        BY <1>3, <3>2, <4>1, <4>2, <4>3, <4>4 DEF InnerStep, ReadClock
    <3>3. QED
      BY <3>1, <3>2
  <2>3. CASE lastRequest' = lastRequest
    BY <2>1, <2>3 DEF RequestAge, Counted
  <2>4. CASE lastRequest' = ZeroTime
    BY <2>4 DEF RequestAge, Counted, ZeroTime, IsZero
  <2>5. QED
    BY <2>2, <2>3, <2>4
<1>4. QED
  BY <1>1, <1>2, <1>3 DEF ClientStep

(* Time passes, on a clock that is slewed, set back or set by another      *)
(* client.                                                                 *)
LEMMA NextRequestAge ==
    ASSUME SysInv, RequestAge, [NextUnsteady]_sysVars
    PROVE  RequestAge'
<1>0. clock \in Nat /\ truth \in Nat /\ gained \in Int /\ sinceRequest \in Nat
  BY MeasuredTypes DEF SysInv
<1>1. CASE ClientStep
  BY <1>1, ClientAge
<1>2. CASE Tick
  <2>1. Slewing \in Int
    BY DEF Slewing
  <2>2. lastRequest' = lastRequest
    BY <1>2 DEF Tick, vars, fields
  <2>3. QED
    BY <1>2, <2>1, <2>2, TickAge DEF Tick
<1>3. CASE Falter
  <2>1. lastRequest' = lastRequest
    BY <1>3 DEF Falter, vars, fields
  <2>2. clock - 1 = clock + 1 + (-2) /\ gained - 2 = gained + (-2)
    BY <1>0
  <2>3. QED
    BY <1>3, <2>1, <2>2, TickAge DEF Falter
<1>4. CASE OtherClientCorrects
  <2>1. /\ clock' = truth /\ sinceRequest' = sinceRequest + 0
        /\ gained' = Shorter(gained + truth - clock) /\ lastRequest' = lastRequest
    BY <1>0, <1>4 DEF OtherClientCorrects, vars, fields
  <2>2. /\ gained + truth - clock \in Int /\ truth - clock \in Int
        /\ gained + truth - clock = gained + (truth - clock) - 0
        /\ truth = clock + (truth - clock)
    BY <1>0
  <2>3. gained' \in Int /\ SameTick(gained', gained + (truth - clock) - 0)
    BY <2>1, <2>2, ShorterSameTick
  <2>4. clock' \in Int /\ SameTick(clock', clock + (truth - clock))
    BY <1>0, <2>1, <2>2, SameTickSelf
  <2>5. QED
    BY <2>1, <2>2, <2>3, <2>4, ClockMoves
<1>5. CASE Respond \/ Arrive \/ Lose \/ UNCHANGED sysVars
  BY <1>5 DEF Respond, Arrive, Lose, sysVars, vars, fields, observers, RequestAge, Counted
<1>6. QED
  BY <1>1, <1>2, <1>3, <1>4, <1>5 DEF NextUnsteady, NextSystem, Environment

-----------------------------------------------------------------------------
(* Its answers                                                             *)

(* A request that is forgotten, or that the observer has lost count of,    *)
(* binds nothing.                                                          *)
LEMMA ForgottenAnswered ==
    ASSUME ~ Counted'
    PROVE  Answered'
BY DEF Answered, AnswersServed, AnswerRead

(* Steps of the client that leave the host and the request alone. *)
LEMMA QuietAnswered ==
    ASSUME SysInv, Answered,
           UNCHANGED <<clock, truth, net, socket, sinceRequest, gained, lastRequest>>,
           \/ pc' \notin {"rxTime", "validateAuth", "adjust"}
           \/ /\ pc = "rxTime" /\ pc' \in {"validateAuth", "adjust"}
              /\ buffer' = buffer /\ receivedAt' = Now
           \/ /\ pc = "validateAuth" /\ pc' = "adjust"
              /\ UNCHANGED <<buffer, receivedAt>>
    PROVE  Answered'
<1>1. AnswersServed'
  BY DEF Answered, AnswersServed, Counted, IsAnswer, ServedSince
<1>2. AnswerRead'
  <2>1. CASE /\ pc = "rxTime" /\ pc' \in {"validateAuth", "adjust"}
             /\ buffer' = buffer /\ receivedAt' = Now
    <3> SUFFICES ASSUME Counted, IsAnswer(buffer)
                 PROVE  \E age \in 0 .. sinceRequest : \E wait \in 0 .. age :
                           \E slewed \in -wait .. wait :
                              /\ Served(buffer, truth - age)
                              /\ \E at \in Nat : /\ receivedAt' = Stamp(at)
                                                 /\ SameTick(at, clock - wait - slewed)
      BY <2>1 DEF AnswerRead, Counted, IsAnswer, ReadAgo
    <3>1. PICK age \in 0 .. sinceRequest : Served(buffer, truth - age)
      BY <2>1 DEF Answered, AnswersServed, ServedSince
    <3>2. clock \in Nat /\ age \in Nat
      BY <3>1, MeasuredTypes DEF SysInv
    <3>3. SameTick(clock, clock - 0 - 0)
      BY <3>2, SameTickSelf
    <3>4. receivedAt' = Stamp(clock)
      BY <2>1 DEF Now
    <3>5. 0 \in 0 .. age /\ 0 \in -0 .. 0
      BY <3>2
    <3>6. QED
      BY <3>1, <3>2, <3>3, <3>4, <3>5
  <2>2. CASE /\ pc = "validateAuth" /\ pc' = "adjust"
             /\ UNCHANGED <<buffer, receivedAt>>
    BY <2>2 DEF Answered, AnswerRead, Counted, IsAnswer, ReadAgo
  <2>3. CASE pc' \notin {"rxTime", "validateAuth", "adjust"}
    BY <2>3 DEF AnswerRead
  <2>4. QED
    BY <2>1, <2>2, <2>3
<1>3. QED
  BY <1>1, <1>2 DEF Answered

LEMMA InnerAnswered ==
    ASSUME SysInv, Answered, InnerStep, truth' = truth
    PROVE  Answered'
<1> DEFINE Reading == {"rxTime", "validateAuth", "adjust"}
<1> USE DEF Goto, Return, fields
<1>1. UNCHANGED <<clock, truth, net, socket, sinceRequest, gained>>
  BY DEF InnerStep, observers
<1>2. CASE lastRequest' = lastRequest /\ pc' \notin Reading
  BY <1>1, <1>2, QuietAnswered
<1>3. CASE Ask \/ Listen
  BY <1>2, <1>3 DEF Ask, Listen, SendTimeRequest, ReceiveTimeResponse, Call
<1>4. CASE Resolve \/ GenerateClientAuth
  BY <1>2, <1>4 DEF Resolve, ResolveDns, GenerateClientAuth
<1>5. CASE SendNothing \/ SendFails \/ FindNothing \/ RecvFails(buffer)
  BY <1>2, <1>5 DEF SendNothing, SendFails, FindNothing, RecvNothing, RecvFails
<1>6. CASE SendStart(Now) \/ SendRetry(Now) \/ ReceiveStart(Now) \/ RecvRetry(Now)
  BY <1>2, <1>6 DEF SendStart, SendRetry, ReceiveStart, RecvRetry
<1>7. ASSUME NEW rxTime, JudgeResponse(rxTime), buffer' = buffer,
             \/ pc = "rxTime" /\ rxTime = Now
             \/ pc = "validateAuth" /\ rxTime = receivedAt
      PROVE  Answered'
  <2>1. CASE Return("InvalidResponse") /\ UNCHANGED <<server, lastRequest>>
    BY <1>2, <2>1
  <2>2. CASE Return("Rejected") /\ lastRequest' = AfterRejection
    <3>1. CASE lastRequest' = ZeroTime
      BY <3>1, ForgottenAnswered DEF Counted, IsZero, ZeroTime
    <3>2. CASE lastRequest' = lastRequest
      BY <1>2, <2>2, <3>2
    <3>3. QED
      BY <2>2, <3>1, <3>2 DEF AfterRejection
  <2>3. CASE Goto("adjust") /\ lastRequest' = lastRequest /\ receivedAt' = rxTime
    BY <1>1, <1>7, <2>3, QuietAnswered
  <2>4. QED
    BY <1>7, <2>1, <2>2, <2>3 DEF JudgeResponse
<1>8. CASE ReceivedAt(Now)
  <2>1. CASE /\ receivedAt' = Now /\ Goto("validateAuth") /\ lastRequest' = lastRequest
    BY <1>1, <1>8, <2>1, QuietAnswered DEF ReceivedAt
  <2>2. QED
    BY <1>7, <1>8, <2>1 DEF ReceivedAt
<1>9. CASE ValidateServerAuth
  <2>1. ASSUME NEW error \in {"Auth", "ServerNotAuthenticated"}, Return(error),
               lastRequest' = lastRequest
        PROVE  Answered'
    BY <1>2, <2>1
  <2>2. QED
    BY <1>7, <1>9, <2>1 DEF ValidateServerAuth
<1>10. QED
  BY <1>3, <1>4, <1>5, <1>6, <1>8, <1>9 DEF InnerStep, ReadClock

(* No datagram under way answers a new request yet. *)
LEMMA MakeRequestAnswered ==
    ASSUME MakeRequest
    PROVE  Answered'
<1>1. PICK mask \in RandomMasks : Fresh(mask) /\ RequestTime(Now, mask)
  BY DEF MakeRequest
<1>2. UNCHANGED <<net, socket>>
  BY DEF MakeRequest
<1>3. CASE IsZero(lastRequest')
  BY <1>3, ForgottenAnswered DEF Counted
<1>4. CASE lastRequest' \in Unpredictable(Now, mask) /\ pc' \in {"genAuth", "sendStart"}
  <2>1. \A d \in net \cup socket : RequestOf(d.packet) # lastRequest'
    BY <1>1, <1>4 DEF Fresh, Underway
  <2>2. \A d \in net \cup socket : d.packet.mode = "server" => RequestOf(d.packet) = d.packet.origin
    BY DEF RequestOf
  <2>3. AnswersServed'
    BY <1>2, <1>4, <2>1, <2>2 DEF AnswersServed, IsAnswer
  <2>4. QED
    BY <1>4, <2>3 DEF Answered, AnswerRead
<1>5. QED
  BY <1>1, <1>3, <1>4 DEF RequestTime, Goto

LEMMA TransmitAnswered ==
    ASSUME SysInv, Answered, Transmit, truth' = truth
    PROVE  Answered'
<1> DEFINE sent == [server |-> addr, packet |-> buffer, age |-> 0]
<1>1. /\ pc = "sendTo" /\ pc' = "idle"
      /\ UNCHANGED <<clock, truth, socket, sinceRequest, gained, lastRequest>>
      /\ net' \subseteq net \cup {sent}
  BY DEF Transmit, SendAll, Return, fields, observers
<1>2. sent.packet = RequestPacket(lastRequest)
  BY <1>1 DEF SysInv, IInv, WireMatchesRequest
<1>3. sent.packet.mode # "server"
  BY <1>2 DEF RequestPacket
<1> HIDE DEF sent
<1>4. \A d \in net' \cup socket' : d = sent \/ d \in net \cup socket
  BY <1>1
<1>5. AnswersServed'
  BY <1>1, <1>3, <1>4 DEF Answered, AnswersServed, Counted, IsAnswer, ServedSince
<1>6. QED
  BY <1>1, <1>5 DEF Answered, AnswerRead

LEMMA ReadAnswered ==
    ASSUME SysInv, Answered, ReadDatagram, truth' = truth
    PROVE  Answered'
<1>1. PICK d \in socket :
         RecvPacket(d.packet) /\ socket' = socket \ {d} /\ readFrom' = d.server
  BY DEF ReadDatagram
<1>2. /\ pc' = "rxTime" /\ buffer' = d.packet
      /\ UNCHANGED <<clock, truth, net, sinceRequest, gained, lastRequest>>
  BY <1>1 DEF ReadDatagram, RecvPacket, Goto
<1>3. AnswersServed'
  BY <1>1, <1>2 DEF Answered, AnswersServed, Counted, IsAnswer, ServedSince
<1>4. QED
  BY <1>2, <1>3 DEF Answered, AnswerRead

(* A tick ages the request, its answers and the reading of their arrival.  *)
LEMMA TickAnswered ==
    ASSUME SysInv, Answered, Tick
    PROVE  Answered'
<1>1. CASE ~ Counted'
  BY <1>1, ForgottenAnswered
<1>2. CASE Counted'
  <2>1. UNCHANGED <<lastRequest, pc, buffer, receivedAt, socket>>
    BY DEF Tick, vars, fields, locals
  <2>2. /\ clock \in Nat /\ truth \in Nat /\ gained \in Int
        /\ sinceRequest \in Nat /\ MaxAge \in Nat
    BY MeasuredTypes DEF SysInv
  <2>3. Counted /\ sinceRequest' = sinceRequest + 1
    BY <1>2, <2>1, <2>2 DEF Counted, Tick
  <2>4. Slewing \in -1 .. 1
    <3>1. slew \in Int
      BY SystemAssumption DEF SysInv, TypeOKSystem
    <3>2. QED
      BY <3>1 DEF Slewing
  <2>5. clock' \in Nat /\ SameTick(clock', clock + 1 + Slewing)
    <3>1. clock + 1 + Slewing \in Int
      BY <2>2, <2>4
    <3>2. QED
      BY <3>1, RemainderSameTick DEF Tick
  <2>6. truth' \in Nat /\ SameTick(truth', truth + 1)
    <3>1. truth + 1 \in Int
      BY <2>2
    <3>2. QED
      BY <3>1, RemainderSameTick DEF Tick
  <2>7. SameTick(0, 0)
    BY SameTickSelf
  <2>8. ASSUME NEW packet, NEW age \in 0 .. sinceRequest, Served(packet, truth - age)
         PROVE  age + 1 \in 0 .. sinceRequest' /\ Served(packet, truth' - (age + 1))
    <3>1. age \in Nat /\ age + 1 \in 0 .. sinceRequest'
      BY <2>2, <2>3
    <3>2. truth - age \in Int /\ truth' - (age + 1) \in Int /\ truth + 1 \in Int
      BY <2>2, <2>6, <3>1
    <3>3. (truth - age) - (truth' - (age + 1)) = (0 - 0) - (truth' - (truth + 1))
      BY <2>2, <2>6, <3>1
    <3>4. SameTick(truth - age, truth' - (age + 1))
      BY <2>2, <2>6, <2>7, <3>2, <3>3, SameTickJoined
    <3>5. QED
      BY <2>8, <3>1, <3>2, <3>4, ServedSame
  <2>9. AnswersServed'
    <3>1. ASSUME NEW packet, ServedSince(packet)
          PROVE  \E age \in 0 .. sinceRequest' : Served(packet, truth' - age)
      BY <2>8, <3>1 DEF ServedSince
    <3>2. \A d \in net' \cup socket' : \E e \in net \cup socket : d.packet = e.packet
      BY <2>1 DEF Tick, SysInv, Datagrammed, OnItsWay
    <3>3. QED
      BY <2>1, <2>3, <3>1, <3>2 DEF Answered, AnswersServed, IsAnswer, ServedSince
  <2>10. AnswerRead'
    <3> SUFFICES ASSUME pc \in {"validateAuth", "adjust"}, IsAnswer(buffer)
                 PROVE  \E age \in 0 .. sinceRequest' : \E wait \in 0 .. age :
                           \E slewed \in -wait .. wait :
                              /\ Served(buffer, truth' - age)
                              /\ \E at \in Nat : /\ receivedAt = Stamp(at)
                                                 /\ SameTick(at, clock' - wait - slewed)
      BY <2>1 DEF AnswerRead, IsAnswer, ReadAgo
    <3>1. PICK age \in 0 .. sinceRequest : \E wait \in 0 .. age : \E slewed \in -wait .. wait :
             Served(buffer, truth - age) /\ ReadAgo(receivedAt, wait, slewed)
      BY <2>3 DEF Answered, AnswerRead
    <3>2. PICK wait \in 0 .. age, slewed \in Int :
             /\ slewed \in -wait .. wait
             /\ Served(buffer, truth - age) /\ ReadAgo(receivedAt, wait, slewed)
      BY <2>2, <3>1
    <3>3. PICK at \in Nat : receivedAt = Stamp(at) /\ SameTick(at, clock - wait - slewed)
      BY <3>2 DEF ReadAgo
    <3> DEFINE slewedNow == slewed + Slewing
               readThen == clock - wait - slewed
               readNow  == clock' - (wait + 1) - slewedNow
    <3>4. /\ wait \in Nat /\ slewed \in Int /\ wait + 1 \in 0 .. age + 1
          /\ slewedNow \in -(wait + 1) .. wait + 1
      BY <2>2, <2>4, <3>2
    <3>5. readThen \in Int /\ readNow \in Int /\ clock + 1 + Slewing \in Int
      BY <2>2, <2>4, <2>5, <3>4
    <3>6. at - readNow = (at - readThen) - (clock' - (clock + 1 + Slewing))
      BY <2>2, <2>4, <2>5, <3>4
    <3>7. SameTick(at, readNow)
      <4> HIDE DEF readThen, readNow
      <4>1. SameTick(at, readThen)
        BY <3>3 DEF readThen
      <4>2. QED
        BY <2>2, <2>5, <3>5, <3>6, <4>1, SameTickJoined
    <3>8. age + 1 \in 0 .. sinceRequest' /\ Served(buffer, truth' - (age + 1))
      BY <2>8, <3>2
    <3>9. QED
      BY <3>3, <3>4, <3>7, <3>8
  <2>11. QED
    BY <2>9, <2>10 DEF Answered
<1>3. QED
  BY <1>1, <1>2

(* A server answers with its clock's reading, datagrams move or are lost,  *)
(* and what another client does to the clock it does between two calls.    *)
LEMMA EnvironmentAnswered ==
    ASSUME SysInv, Answered, Environment
    PROVE  Answered'
<1>1. UNCHANGED <<lastRequest, pc, buffer, receivedAt>>
  BY EnvironmentKeepsClient DEF vars, fields, locals
<1>2. /\ clock \in Nat /\ truth \in Nat /\ gained \in Int
      /\ sinceRequest \in Nat /\ MaxAge \in Nat
  BY MeasuredTypes DEF SysInv
<1>3. ASSUME UNCHANGED <<clock, truth, sinceRequest, gained>>,
             \A e \in net' \cup socket' :
                \/ \E d \in net \cup socket : e.packet = d.packet
                \/ Served(e.packet, truth)
      PROVE  Answered'
  <2>1. AnswerRead'
    BY <1>1, <1>3 DEF Answered, AnswerRead, Counted, IsAnswer, ReadAgo
  <2>2. 0 \in 0 .. sinceRequest /\ truth - 0 = truth
    BY <1>2
  <2>3. \A packet : Served(packet, truth) => ServedSince(packet)
    BY <2>2 DEF ServedSince
  <2>4. \A packet : ServedSince(packet) => \E age \in 0 .. sinceRequest' : Served(packet, truth' - age)
    BY <1>3 DEF ServedSince
  <2>5. AnswersServed'
    BY <1>1, <1>3, <2>3, <2>4 DEF Answered, AnswersServed, Counted, IsAnswer, ServedSince
  <2>6. QED
    BY <2>1, <2>5 DEF Answered
<1>4. CASE Respond
  <2>1. PICK d \in net :
           net' \subseteq net \cup {[d EXCEPT !.packet = Response(d.server, d.packet), !.age = 0]}
    BY <1>4 DEF Respond
  <2> DEFINE reply == [d EXCEPT !.packet = Response(d.server, d.packet), !.age = 0]
  <2>2. reply.packet = Response(d.server, d.packet)
    BY DEF SysInv, Datagrammed, OnItsWay
  <2>3. Served(reply.packet, truth)
    <3>1. SameTick(truth, truth)
      BY <1>2, SameTickSelf
    <3>2. QED
      BY <1>2, <2>2, <3>1 DEF Served, Response
  <2> HIDE DEF reply
  <2>4. \A e \in net' \cup socket' : e = reply \/ e \in net \cup socket
    BY <1>4, <2>1 DEF Respond, reply
  <2>5. QED
    BY <1>3, <1>4, <2>3, <2>4 DEF Respond, observers
<1>5. CASE Arrive
  <2>1. \A e \in net' \cup socket' : \E d \in net \cup socket : e.packet = d.packet
    BY <1>5 DEF Arrive
  <2>2. QED
    BY <1>3, <1>5, <2>1 DEF Arrive, observers
<1>6. CASE Lose
  <2>1. \A e \in net' \cup socket' : e \in net \cup socket
    BY <1>6 DEF Lose
  <2>2. QED
    BY <1>3, <1>6, <2>1 DEF Lose, observers
<1>7. CASE OtherClientCorrects
  <2>1. pc = "idle" /\ UNCHANGED <<truth, net, socket, sinceRequest>>
    BY <1>7 DEF OtherClientCorrects
  <2>2. AnswersServed'
    BY <1>1, <2>1 DEF Answered, AnswersServed, Counted, IsAnswer, ServedSince
  <2>3. QED
    BY <1>1, <2>1, <2>2 DEF Answered, AnswerRead
<1>8. QED
  BY <1>4, <1>5, <1>6, <1>7, TickAnswered DEF Environment

LEMMA NextAnswered ==
    ASSUME SysInv, Answered, [NextSystem]_sysVars
    PROVE  Answered'
<1>1. CASE UNCHANGED sysVars
  <2>1. UNCHANGED <<vars, clock, truth, net, socket, observers>>
    BY <1>1 DEF sysVars
  <2>2. UNCHANGED <<lastRequest, pc, buffer, receivedAt, clock, truth, net, socket,
                    sinceRequest>>
    BY <2>1 DEF vars, fields, locals, observers
  <2>3. QED
    BY <2>2 DEF Answered, AnswersServed, AnswerRead, Counted, IsAnswer, ServedSince, ReadAgo
<1>2. CASE ClientStep
  <2>1. truth' = truth
    BY <1>2 DEF ClientStep
  <2>2. CASE SetClock
    <3>1. IsZero(lastRequest')
      BY <2>2 DEF SetClock, AdjustClock, ZeroTime, IsZero
    <3>2. QED
      BY <3>1, ForgottenAnswered DEF Counted
  <2>3. QED
    BY <1>2, <2>1, <2>2, InnerAnswered, MakeRequestAnswered, TransmitAnswered, ReadAnswered
    DEF ClientStep
<1>3. CASE Environment
  BY <1>3, EnvironmentAnswered
<1>4. QED
  BY <1>1, <1>2, <1>3 DEF NextSystem

LEMMA MeasuredInvariance == SystemSpec => []Measured
<1>1. InitSystem => Measured
  BY InitMeasured
<1>2. SysInv /\ Measured /\ [NextSystem]_sysVars => Measured'
  BY NextRequestAge, NextAnswered DEF Measured, NextUnsteady
<1>3. QED
  BY <1>1, <1>2, SystemInvariance, PTL DEF SystemSpec

-----------------------------------------------------------------------------
(* The offset                                                              *)

(* The correction is computed from the answer and the two readings.        *)
LEMMA CorrectionIs ==
    ASSUME IInv, pc = "adjust"
    PROVE  /\ ~ IsZero(lastRequest) /\ IsAnswer(buffer)
           /\ Correction.offset = CalculateClockOffset(lastRequest, buffer.receive,
                                                       buffer.transmit, receivedAt)
<1>1. /\ ~ IsZero(lastRequest) /\ buffer.mode = "server" /\ buffer.origin = lastRequest
      /\ ~ IsZero(buffer.receive) /\ ~ IsZero(buffer.transmit)
      /\ buffer.stratum # KissStratum
  BY DEF IInv, CorrectionIsAnswer
<1>2. ResponseError(lastRequest, buffer) = "none"
  BY <1>1 DEF ResponseError
<1>3. QED
  BY <1>1, <1>2 DEF Correction, DeserializeResponse, IsAnswer

(* With its random bits the request is still a reading of some clock, less *)
(* than a millisecond ahead.                                               *)
LEMMA RequestIsReading ==
    ASSUME NEW t \in Timestamp, NEW ticks \in Nat, ReadAt(t, ticks)
    PROVE  \E bits \in 0 .. FractionsPerMs - 1 : t = Stamp(ticks + bits)
<1> DEFINE F == FractionsMod
           s == SecondOf(ticks)
           f == FractionOf(ticks)
           bits == t.fractions - f
           m == SecondOf(ticks + bits)
           g == FractionOf(ticks + bits)
<1>1. /\ s \in Nat /\ f \in 0 .. F - 1 /\ ticks = F * s + f
      /\ t.seconds = s % SecondsMod
      /\ f <= t.fractions /\ t.fractions < f + FractionsPerMs
  BY ReadingOf DEF ReadAt
<1>2. F \in Nat /\ F > 0 /\ FractionsPerMs \in Nat /\ t.fractions \in 0 .. F - 1
  BY UnitTypes DEF Timestamp
<1>3. bits \in 0 .. FractionsPerMs - 1 /\ ticks + bits \in Nat
  BY <1>1, <1>2
<1>4. /\ m \in Nat /\ g \in 0 .. F - 1 /\ ticks + bits = F * m + g
      /\ Stamp(ticks + bits).seconds = m % SecondsMod
      /\ Stamp(ticks + bits).fractions = g
  BY <1>3, ReadingOf
<1> HIDE DEF F, s, f, m, g
<1>5. /\ F * s \in Int /\ F * m \in Int /\ F * (m - s) = F * m - F * s
  BY <1>1, <1>2, <1>4
<1>6. F * (m - s) = t.fractions - g
  <2>1. bits = t.fractions - f /\ f \in Int /\ t.fractions \in Int /\ ticks \in Int
    BY <1>1, <1>2
  <2>2. ticks + bits = F * m + g /\ ticks = F * s + f /\ g \in Int
    BY <1>1, <1>2, <1>4
  <2>3. bits \in Int
    BY <2>1
  <2> HIDE DEF bits
  <2>4. QED
    BY <1>5, <2>1, <2>2, <2>3
<1> HIDE DEF bits
<1>7. m = s
  <2>1. ASSUME m - s >= 1 PROVE FALSE
    <3>1. F * (m - s) >= F * 1
      BY <1>1, <1>2, <1>4, <2>1
    <3>2. QED
      BY <1>2, <1>4, <1>6, <3>1
  <2>2. ASSUME m - s <= -1 PROVE FALSE
    <3>1. F * (m - s) <= F * (-1)
      BY <1>1, <1>2, <1>4, <2>2
    <3>2. QED
      BY <1>2, <1>4, <1>6, <3>1
  <2>3. QED
    BY <1>1, <1>4, <2>1, <2>2
<1>8. g = t.fractions
  BY <1>1, <1>2, <1>4, <1>5, <1>6, <1>7
<1>9. t = Stamp(ticks + bits)
  <2>1. Stamp(ticks + bits) = [seconds |-> t.seconds, fractions |-> t.fractions]
    BY <1>1, <1>4, <1>7, <1>8 DEF Stamp
  <2>2. QED
    BY <2>1 DEF Timestamp
<1>10. QED
  BY <1>3, <1>9

(* What is less than half an era is the shorter way round of all that the  *)
(* clock cannot tell from it.                                              *)
LEMMA ShorterSame ==
    ASSUME NEW m \in Int, NEW n \in Int, SameTick(m, n), 2 * AbsoluteOf(n) < EraTicks
    PROVE  Shorter(m) = n
<1>1. EraTicks \in Nat /\ EraTicks > 0
  BY ClockConstants
<1>2. PICK k \in Int : m - n = EraTicks * k
  BY DEF SameTick
<1>3. CASE n >= 0
  <2>1. n \in 0 .. EraTicks - 1 /\ m = n + EraTicks * k
    BY <1>1, <1>2, <1>3 DEF AbsoluteOf
  <2>2. m % EraTicks = n
    BY <1>1, <1>2, <2>1, RemainderIs
  <2>3. QED
    BY <1>1, <1>3, <2>2 DEF Shorter, AbsoluteOf
<1>4. CASE n < 0
  <2>1. n + EraTicks \in 0 .. EraTicks - 1 /\ k - 1 \in Int
    BY <1>1, <1>4 DEF AbsoluteOf
  <2>2. m = (n + EraTicks) + EraTicks * (k - 1)
    <3>1. EraTicks * (k - 1) = EraTicks * k - EraTicks
      BY <1>1
    <3>2. QED
      BY <1>1, <1>2, <3>1
  <2> DEFINE r == n + EraTicks
             q == k - 1
  <2> HIDE DEF r, q
  <2>3. m % EraTicks = r
    <3>1. r \in 0 .. EraTicks - 1 /\ q \in Int /\ m = r + EraTicks * q
      BY <2>1, <2>2 DEF r, q
    <3>2. QED
      BY <1>1, <3>1, RemainderIs
  <2>4. QED
    BY <1>1, <1>4, <2>3 DEF Shorter, AbsoluteOf, r
<1>5. QED
  BY <1>3, <1>4

LEMMA ShorterIs ==
    ASSUME NEW n \in Int, 2 * AbsoluteOf(n) < EraTicks
    PROVE  Shorter(n) = n
BY ShorterSame, SameTickSelf

(* The two differences of the offset: what the clock lacked at the request *)
(* and at the response, off by the part of the round trip before and after *)
(* the server read its own.                                                *)
LEMMA CorrectionMeasured ==
    ASSUME SysInv, Measured, AgesToldApart, pc = "adjust", HalfEraPremise
    PROVE  /\ Behind \in Int /\ BehindAtRequest = Behind + gained
           /\ AbsoluteOf(Millis(2 * Correction.offset) - Ticks(Behind + BehindAtRequest))
                <= Ticks(sinceRequest) + Rounding
<1> DEFINE D == FractionsPerMs
           B == Behind
           G == gained
           A == sinceRequest
           offset == Correction.offset
           apart == AbsoluteOf(B) + AbsoluteOf(G) + A + D - 1
<1>1. /\ clock \in Nat /\ truth \in Nat /\ G \in Int /\ A \in Nat /\ MaxAge \in Nat
      /\ lastRequest \in Timestamp
  BY MeasuredTypes DEF SysInv
<1>2. B \in Int /\ SameTick(B, truth - clock)
  <2>1. truth - clock \in Int
    BY <1>1
  <2>2. QED
    BY <2>1, ShorterSameTick DEF Behind
<1>3. D \in Nat /\ D > 0 /\ EraTicks \in Nat
  BY UnitTypes, ClockConstants
<1>4. AbsoluteOf(B) \in Nat /\ AbsoluteOf(G) \in Nat
  BY <1>1, <1>2 DEF AbsoluteOf
<1>5. /\ apart \in Nat
      /\ 2 * (Ticks(apart) + Loss) < Ticks(EraTicks)
      /\ 2 * apart < EraTicks
  <2>1. apart \in Nat
    BY <1>1, <1>3, <1>4
  <2>2. 2 * (Ticks(apart) + Loss) < Ticks(EraTicks)
    BY DEF HalfEraPremise
  <2> HIDE DEF apart
  <2>3. apart + apart \in Int /\ Ticks(apart + apart) = Ticks(apart) + Ticks(apart)
        /\ Ticks(apart) \in Int /\ Ticks(EraTicks) \in Int
    BY <1>3, <2>1, UnitTypes DEF Ticks
  <2>4. ~ (EraTicks <= apart + apart)
    <3>1. ~ (Ticks(EraTicks) <= Ticks(apart + apart))
      BY <2>2, <2>3, LossType
    <3>2. QED
      BY <1>3, <2>3, <3>1, TicksOrder
  <2>5. QED
    BY <1>3, <2>1, <2>2, <2>4
<1>6. sinceRequest < MaxAge
  <2>1. 2 * FractionsMod <= EraTicks /\ FractionsMod \in Nat
    <3>1. HalfSeconds \in Nat /\ HalfSeconds >= 1 /\ FractionsMod \in Nat
      BY WidthsAssumption
    <3>2. EraTicks = 2 * (HalfSeconds * FractionsMod)
      BY <3>1 DEF EraTicks, SecondsMod
    <3>3. HalfSeconds * FractionsMod >= FractionsMod /\ HalfSeconds * FractionsMod \in Nat
      BY <3>1
    <3>4. QED
      BY <3>1, <3>2, <3>3
  <2>2. EraTicks - FractionsMod <= MaxAge
    BY DEF AgesToldApart
  <2>3. QED
    BY <1>1, <1>3, <1>4, <1>5, <2>1, <2>2
<1>7. /\ Counted /\ IsAnswer(buffer)
      /\ offset = CalculateClockOffset(lastRequest, buffer.receive, buffer.transmit, receivedAt)
  BY <1>6, CorrectionIs DEF SysInv, Counted
<1>8. PICK reading \in Nat : /\ ReadAt(lastRequest, reading)
                             /\ SameTick(clock, reading + A + G)
  BY <1>7 DEF Measured, RequestAge
<1>9. PICK bits \in 0 .. D - 1 : lastRequest = Stamp(reading + bits)
  BY <1>1, <1>8, RequestIsReading
<1>10. PICK age \in 0 .. A : \E wait \in 0 .. age : \E slewed \in -wait .. wait :
          Served(buffer, truth - age) /\ ReadAgo(receivedAt, wait, slewed)
  BY <1>7 DEF Measured, Answered, AnswerRead
<1>11. PICK wait \in 0 .. age, slewed \in Int :
          /\ slewed \in -wait .. wait
          /\ Served(buffer, truth - age) /\ ReadAgo(receivedAt, wait, slewed)
  BY <1>1, <1>10
<1>12. PICK served \in Nat : /\ buffer.receive = Stamp(served) /\ buffer.transmit = Stamp(served)
                             /\ SameTick(served, truth - age)
  BY <1>11 DEF Served
<1>13. PICK at \in Nat : receivedAt = Stamp(at) /\ SameTick(at, clock - wait - slewed)
  BY <1>11 DEF ReadAgo
<1>14. age \in Nat /\ wait \in Nat /\ bits \in Nat /\ bits <= D - 1 /\ age <= A /\ wait <= age
  BY <1>1, <1>3, <1>9, <1>10, <1>11
<1> DEFINE outward == B + G + A - age - bits
           homeward == B + wait + slewed - age
           d1 == SafeTimeDifference(Stamp(served), Stamp(reading + bits))
           d2 == SafeTimeDifference(Stamp(served), Stamp(at))
           sentAgo == reading + A + G
           servedAt == truth - age
           readAt == clock - wait - slewed
           lack == truth - clock
<1>15. /\ outward \in Int /\ homeward \in Int /\ sentAgo \in Int /\ servedAt \in Int
       /\ readAt \in Int /\ lack \in Int /\ reading + bits \in Nat
  BY <1>1, <1>2, <1>11, <1>14
<1>16. SameTick(served, (reading + bits) + outward)
  <2> DEFINE between == reading + A + G + lack - age
  <2>1. between \in Int /\ (reading + bits) + outward \in Int
    BY <1>1, <1>14, <1>15
  <2>2. served - between = (served - servedAt) + (clock - sentAgo)
    BY <1>1, <1>11, <1>14
  <2>3. served - ((reading + bits) + outward) = (served - between) - (B - lack)
    BY <1>1, <1>2, <1>11, <1>14
  <2> HIDE DEF between, outward, sentAgo, servedAt, lack
  <2>4. SameTick(clock, sentAgo) /\ SameTick(served, servedAt) /\ SameTick(B, lack)
    BY <1>2, <1>8, <1>12 DEF sentAgo, servedAt, lack
  <2>5. SameTick(served, between)
    BY <1>1, <1>15, <2>1, <2>2, <2>4, SameTickJoined
  <2>6. QED
    BY <1>2, <1>15, <2>1, <2>3, <2>4, <2>5, SameTickJoined
<1>17. SameTick(served, at + homeward)
  <2> DEFINE between == at + wait + slewed + lack - age
  <2>1. between \in Int /\ at + homeward \in Int
    BY <1>1, <1>11, <1>14, <1>15
  <2>2. served - between = (served - servedAt) - (at - readAt)
    BY <1>1, <1>11, <1>14
  <2>3. served - (at + homeward) = (served - between) - (B - lack)
    BY <1>1, <1>2, <1>11, <1>14
  <2> HIDE DEF between, homeward, readAt, servedAt, lack
  <2>4. SameTick(at, readAt) /\ SameTick(served, servedAt) /\ SameTick(B, lack)
    BY <1>2, <1>12, <1>13 DEF readAt, servedAt, lack
  <2>5. SameTick(served, between)
    BY <1>15, <2>1, <2>2, <2>4, SameTickJoined
  <2>6. QED
    BY <1>2, <1>15, <2>1, <2>3, <2>4, <2>5, SameTickJoined
<1>18. 2 * (Ticks(AbsoluteOf(outward)) + Loss) < Ticks(EraTicks)
  <2> DEFINE size == AbsoluteOf(outward)
  <2>1. size \in Int /\ size <= apart
    BY <1>1, <1>2, <1>3, <1>14 DEF AbsoluteOf
  <2> HIDE DEF apart, size
  <2>2. Ticks(size) <= Ticks(apart) /\ Ticks(size) \in Int /\ Ticks(apart) \in Int
        /\ Ticks(EraTicks) \in Int
    BY <1>3, <1>5, <2>1, TicksOrder
  <2>3. 2 * (Ticks(size) + Loss) < Ticks(EraTicks)
    BY <1>5, <2>2, LossType
  <2>4. QED
    BY <2>3 DEF size
<1>19. 2 * (Ticks(AbsoluteOf(homeward)) + Loss) < Ticks(EraTicks)
  <2> DEFINE size == AbsoluteOf(homeward)
  <2>1. size \in Int /\ size <= apart
    BY <1>1, <1>2, <1>3, <1>4, <1>11, <1>14 DEF AbsoluteOf
  <2> HIDE DEF apart, size
  <2>2. Ticks(size) <= Ticks(apart) /\ Ticks(size) \in Int /\ Ticks(apart) \in Int
        /\ Ticks(EraTicks) \in Int
    BY <1>3, <1>5, <2>1, TicksOrder
  <2>3. 2 * (Ticks(size) + Loss) < Ticks(EraTicks)
    BY <1>5, <2>2, LossType
  <2>4. QED
    BY <2>3 DEF size
<1>20. d1 \in Int /\ Millis(d1) <= Ticks(outward) + Loss /\ Millis(d1) >= Ticks(outward) - Loss
  BY <1>15, <1>16, <1>18, DifferenceInParts
<1>21. d2 \in Int /\ Millis(d2) <= Ticks(homeward) + Loss /\ Millis(d2) >= Ticks(homeward) - Loss
  BY <1>15, <1>17, <1>19, DifferenceInParts
<1>22. offset = HalfTowardZero(d1 + d2)
  BY <1>7, <1>9, <1>12, <1>13 DEF CalculateClockOffset
<1>23. BehindAtRequest = B + G
  <2>1. B + G \in Int /\ 2 * AbsoluteOf(B + G) < EraTicks
    BY <1>1, <1>2, <1>3, <1>5 DEF AbsoluteOf
  <2>2. QED
    BY <2>1, ShorterIs DEF BehindAtRequest
(* The ticks by which the two legs miss twice the mean. *)
<1> DEFINE lacks == B + BehindAtRequest
           legs  == outward + homeward
           slack == A + (D - 1)
<1>24. /\ lacks \in Int /\ legs \in Int /\ slack \in Int
       /\ legs <= lacks + slack /\ lacks <= legs + slack
  BY <1>1, <1>2, <1>3, <1>11, <1>14, <1>23
<1>25. Ticks(slack) = Ticks(A) + Ticks(D - 1) /\ Ticks(A) \in Int /\ Ticks(D - 1) \in Int
  BY <1>1, <1>3, UnitTypes DEF Ticks
<1> HIDE DEF d1, d2, offset, outward, homeward, lacks, slack
<1>26. Ticks(legs) = Ticks(outward) + Ticks(homeward)
       /\ Ticks(outward) \in Int /\ Ticks(homeward) \in Int
  BY <1>15, UnitTypes DEF Ticks
<1> HIDE DEF legs
<1>27. /\ Ticks(legs) <= Ticks(lacks) + Ticks(slack) /\ Ticks(lacks) <= Ticks(legs) + Ticks(slack)
       /\ Ticks(lacks) \in Int
  <2>1. lacks + slack \in Int /\ legs + slack \in Int
    BY <1>24
  <2>2. Ticks(lacks + slack) = Ticks(lacks) + Ticks(slack)
        /\ Ticks(legs + slack) = Ticks(legs) + Ticks(slack) /\ Ticks(lacks) \in Int
    BY <1>24, UnitTypes DEF Ticks
  <2>3. Ticks(legs) <= Ticks(lacks + slack) /\ Ticks(lacks) <= Ticks(legs + slack)
    BY <1>24, <2>1, TicksOrder
  <2>4. QED
    BY <2>2, <2>3
<1>28. offset \in Int /\ 2 * offset \in d1 + d2 - 1 .. d1 + d2 + 1
  BY <1>20, <1>21, <1>22, HalfDoubled
<1> DEFINE doubled == 2 * offset
<1> HIDE DEF doubled
<1>29. /\ Millis(doubled) \in Int /\ Millis(d1) \in Int /\ Millis(d2) \in Int /\ Millis(1) \in Int
       /\ Millis(doubled) <= Millis(d1) + Millis(d2) + Millis(1)
       /\ Millis(doubled) >= Millis(d1) + Millis(d2) - Millis(1)
  <2> DEFINE sum == d1 + d2
  <2>1. sum \in Int /\ Millis(sum) = Millis(d1) + Millis(d2)
        /\ Millis(d1) \in Int /\ Millis(d2) \in Int
    BY <1>20, <1>21, UnitTypes DEF Millis
  <2>2. doubled \in Int /\ doubled <= sum + 1 /\ sum - 1 <= doubled
    <3>1. doubled \in sum - 1 .. sum + 1 /\ sum - 1 \in Int /\ sum + 1 \in Int
      BY <1>20, <1>21, <1>28, <2>1 DEF doubled
    <3>2. QED
      BY <3>1
  <2> HIDE DEF sum
  <2>3. sum + 1 \in Int /\ sum - 1 \in Int
        /\ Millis(sum + 1) = Millis(sum) + Millis(1) /\ Millis(sum - 1) = Millis(sum) - Millis(1)
        /\ Millis(1) \in Int /\ Millis(sum) \in Int
    BY <2>1, UnitTypes DEF Millis
  <2>4. Millis(doubled) <= Millis(sum + 1) /\ Millis(sum - 1) <= Millis(doubled)
        /\ Millis(doubled) \in Int
    BY <2>2, <2>3, MillisOrder
  <2>5. QED
    BY <2>1, <2>3, <2>4
<1>30. Rounding = 2 * Loss + Ticks(D - 1) + Millis(1) /\ Rounding \in Int
  BY <1>25, <1>29, LossType DEF Rounding
<1>31. AbsoluteOf(Millis(doubled) - Ticks(lacks)) <= Ticks(A) + Rounding
  <2>1. Millis(doubled) - Ticks(lacks) <= Ticks(A) + Rounding
    BY <1>20, <1>21, <1>25, <1>26, <1>27, <1>29, <1>30, LossType
  <2>2. Ticks(lacks) - Millis(doubled) <= Ticks(A) + Rounding
    BY <1>20, <1>21, <1>25, <1>26, <1>27, <1>29, <1>30, LossType
  <2>3. QED
    BY <1>25, <1>27, <1>29, <1>30, <2>1, <2>2 DEF AbsoluteOf
<1>32. QED
  BY <1>2, <1>23, <1>31 DEF doubled, offset, lacks

(* "`offset_ms` is how far this clock is behind the server" - to half the  *)
(* round trip it was measured with and the rounding, whoever corrects the  *)
(* clock meanwhile and whatever answers of earlier requests arrive, for    *)
(* every clock, server, delay, number of datagrams and random bits and     *)
(* every divisor that is not too small, the code's among them              *)
(* (process_response, calculate_clock_offset, fractionsToMs).              *)
THEOREM CorrectionAccurate ==
    ASSUME AgesToldApart
    PROVE  SystemSpec => []CorrectionWithinRoundTrip
<1>1. SysInv /\ Measured => CorrectionWithinRoundTrip
  BY CorrectionMeasured DEF CorrectionWithinRoundTrip
<1>2. QED
  BY <1>1, SystemInvariance, MeasuredInvariance, PTL

(* A host that steps its clock and is not shared: the clock keeps pace     *)
(* with the true time while a request is under way.                        *)
KeepsPace == slew = 0 /\ gained = 0

LEMMA PaceKept ==
    ASSUME ~ SharedHost, SlewLimit = 0, SysInv, KeepsPace, [NextSystem]_sysVars
    PROVE  KeepsPace'
<1>1. CASE SetClock
  <2> DEFINE ticks == (Correction.offset * FractionsMod) \div MsPerSec
  <2>1. ticks \in Int
    <3>1. Correction.offset \in Int
      BY <1>1, OffsetType DEF SysInv, SetClock, AdjustClock
    <3>2. QED
      BY <3>1, HostTicks
  <2>2. (slew' = ticks /\ AbsoluteOf(ticks) <= 0) \/ slew' = 0
    BY <1>1 DEF SetClock
  <2>3. slew' = 0
    BY <2>1, <2>2 DEF AbsoluteOf
  <2>4. QED
    BY <1>1, <2>3 DEF KeepsPace, SetClock, observers
<1>2. CASE Tick
  <2>1. Slewing = 0
    BY DEF KeepsPace, Slewing
  <2>2. Shorter(0) = 0
    BY ShorterIs, ClockConstants DEF AbsoluteOf
  <2>3. slew' = 0 - 0 /\ gained' = Shorter(0 + 0)
    BY <1>2, <2>1 DEF KeepsPace, Tick
  <2>4. QED
    BY <2>2, <2>3 DEF KeepsPace
<1>3. CASE ClientStep /\ ~ SetClock
  BY <1>3 DEF ClientStep, InnerStep, MakeRequest, Transmit, ReadDatagram, KeepsPace, observers
<1>4. CASE Environment /\ ~ Tick
  BY <1>4 DEF Environment, Respond, Arrive, Lose, OtherClientCorrects, KeepsPace, observers
<1>5. CASE UNCHANGED sysVars
  BY <1>5 DEF sysVars, KeepsPace, observers
<1>6. QED
  BY <1>1, <1>2, <1>3, <1>4, <1>5 DEF NextSystem

(* "`offset_ms` is how far this clock is behind the server" (adjust_clock) *)
(* holds as it is documented where one client alone sets a clock that      *)
(* steps: to half the round trip and the rounding.                         *)
THEOREM OffsetTrueUnshared ==
    ASSUME AgesToldApart, ~ SharedHost, SlewLimit = 0
    PROVE  SystemSpec => []OffsetIsHowFarBehind
<1>1. InitSystem => KeepsPace
  BY DEF InitSystem, KeepsPace
<1>2. SysInv /\ KeepsPace /\ [NextSystem]_sysVars => KeepsPace'
  BY PaceKept
<1>3. SysInv /\ Measured /\ KeepsPace => OffsetIsHowFarBehind
  <2> SUFFICES ASSUME SysInv, Measured, KeepsPace, pc = "adjust", HalfEraPremise
               PROVE  AbsoluteOf(Millis(2 * Correction.offset) - Ticks(2 * Behind))
                         <= Ticks(sinceRequest) + Rounding
    BY DEF OffsetIsHowFarBehind
  <2>1. /\ Behind \in Int /\ BehindAtRequest = Behind + gained
        /\ AbsoluteOf(Millis(2 * Correction.offset) - Ticks(Behind + BehindAtRequest))
             <= Ticks(sinceRequest) + Rounding
    BY CorrectionMeasured
  <2>2. Behind + BehindAtRequest = 2 * Behind
    BY <2>1 DEF KeepsPace
  <2>3. QED
    BY <2>1, <2>2
<1>4. QED
  BY <1>1, <1>2, <1>3, SystemInvariance, MeasuredInvariance, PTL DEF SystemSpec

-----------------------------------------------------------------------------
(* The timeouts                                                            *)

(* Whole eras later the clock reads the same. *)
LEMMA SameStamp ==
    ASSUME NEW a \in Nat, NEW b \in Nat, SameTick(a, b)
    PROVE  Stamp(a) = Stamp(b)
<1> DEFINE F == FractionsMod
           S == SecondsMod
           m == SecondOf(a)
           n == SecondOf(b)
           f == FractionOf(a)
           g == FractionOf(b)
<1>1. PICK k \in Int : a - b = EraTicks * k
  BY DEF SameTick
<1>2. F \in Nat /\ F > 0 /\ S \in Nat /\ S > 0 /\ EraTicks = S * F
  BY UnitTypes DEF EraTicks
<1>3. /\ m \in Nat /\ f \in 0 .. F - 1 /\ a = F * m + f
      /\ Stamp(a) = [seconds |-> m % S, fractions |-> f]
  BY ReadingOf DEF Stamp
<1>4. /\ n \in Nat /\ g \in 0 .. F - 1 /\ b = F * n + g
      /\ Stamp(b) = [seconds |-> n % S, fractions |-> g]
  BY ReadingOf DEF Stamp
<1> DEFINE w == n % S
           q == n \div S
<1> HIDE DEF F, S, m, n, f, g
<1>5. w \in 0 .. S - 1 /\ q \in Nat /\ n = w + S * q
  <2>1. w \in 0 .. S - 1 /\ q \in Nat /\ w = n - S * q
    BY <1>2, <1>4, DivMod
  <2> HIDE DEF w, q
  <2>2. QED
    BY <1>2, <1>4, <2>1
<1> HIDE DEF w, q
<1>6. a = f + F * m /\ a = g + F * (n + S * k) /\ n + S * k \in Int
  <2>1. (S * F) * k = F * (S * k) /\ S * k \in Int
    BY <1>2
  <2>2. F * (n + S * k) = F * n + F * (S * k)
    BY <1>2, <1>4, <2>1
  <2>3. QED
    BY <1>1, <1>2, <1>3, <1>4, <2>1, <2>2
<1> DEFINE o == n + S * k
<1> HIDE DEF o
<1>7. /\ m - o \in Int /\ m \in Int /\ o \in Int
      /\ F * (m - o) = F * m - F * o /\ F * m \in Int /\ F * o \in Int
      /\ F * m - F * o = g - f
  <2>1. m \in Int /\ o \in Int /\ a = f + F * m /\ a = g + F * o
    BY <1>3, <1>6 DEF o
  <2>2. F * m \in Int /\ F * o \in Int /\ F * (m - o) = F * m - F * o
    BY <1>2, <2>1
  <2>3. QED
    BY <1>3, <1>4, <2>1, <2>2
<1>8. m = o /\ f = g
  <2>1. ASSUME m - o >= 1 PROVE FALSE
    <3>1. F * (m - o) >= F * 1
      BY <1>2, <1>7, <2>1
    <3>2. QED
      BY <1>2, <1>3, <1>4, <1>7, <3>1
  <2>2. ASSUME m - o <= -1 PROVE FALSE
    <3>1. F * (m - o) <= F * (-1)
      BY <1>2, <1>7, <2>2
    <3>2. QED
      BY <1>2, <1>3, <1>4, <1>7, <3>1
  <2>3. m = o
    BY <1>7, <2>1, <2>2
  <2>4. QED
    BY <1>3, <1>4, <1>7, <2>3
<1>9. m % S = w
  <2>1. m = w + S * (q + k) /\ q + k \in Int
    BY <1>2, <1>5, <1>8 DEF o
  <2>2. QED
    BY <1>2, <1>3, <1>5, <2>1, RemainderIs
<1>10. QED
  BY <1>3, <1>4, <1>8, <1>9 DEF w

(* What the client takes for the age of its request is the age that the    *)
(* host's clock gives it, to what a reading loses on either side.          *)
LEMMA AgeMeasured ==
    ASSUME SysInv, RequestAge, AgesToldApart, ~ IsZero(lastRequest), gained >= 0,
           sinceRequest + gained < EraTicks - FractionsMod
    PROVE  LET age == sinceRequest + gained
               ms  == CalculateElapsedMs(Now, lastRequest)
           IN  /\ age \in Nat /\ ms \in Int
               /\ Millis(ms) <= Ticks(age) + Loss
               /\ Ticks(age) <= Millis(ms) + Loss + Ticks(FractionsPerMs - 1)
<1> DEFINE age == sinceRequest + gained
<1>1. /\ clock \in Nat /\ gained \in Int /\ sinceRequest \in Nat
      /\ MaxAge \in Nat /\ lastRequest \in Timestamp
  BY MeasuredTypes DEF SysInv
<1>2. FractionsMod \in Nat /\ SecondsMod \in Nat /\ EraTicks \in Nat
  BY UnitTypes, ClockConstants
<1>3. Counted
  BY <1>1, <1>2 DEF Counted, AgesToldApart
<1>4. PICK reading \in Nat : /\ ReadAt(lastRequest, reading)
                             /\ SameTick(clock, reading + sinceRequest + gained)
  BY <1>3 DEF RequestAge
<1>5. age \in Nat /\ reading + age \in Nat /\ reading + sinceRequest + gained = reading + age
  BY <1>1
<1>6. Now = Stamp(reading + age)
  BY <1>1, <1>4, <1>5, SameStamp DEF Now
<1>7. (SecondsMod - 1) * FractionsMod = EraTicks - FractionsMod
  BY <1>2 DEF EraTicks
<1>8. /\ reading <= reading + age
      /\ (reading + age) - reading = age
      /\ (reading + age) - reading < (SecondsMod - 1) * FractionsMod
  BY <1>5, <1>7
<1> HIDE DEF age
<1>9. LET ms == CalculateElapsedMs(Stamp(reading + age), lastRequest)
      IN  /\ ms \in Int
          /\ Millis(ms) <= Ticks((reading + age) - reading) + Loss
          /\ Ticks((reading + age) - reading) <= Millis(ms) + Loss + Ticks(FractionsPerMs - 1)
  BY <1>1, <1>4, <1>5, <1>8, ElapsedInParts
<1>10. QED
  BY <1>5, <1>6, <1>8, <1>9 DEF age

(* The retry of recv_from is decided on one reading of the clock. *)
LEMMA RetryDecides ==
    ASSUME NextUnsteady, pc = "recvRetry", pc' = "idle"
    PROVE  IF CalculateElapsedMs(Now, lastRequest) >= ResponseTimeoutMs
           THEN result' = "TimedOut"
           ELSE result' = "NothingYet"
<1>1. ~ (Environment \/ Falter)
  BY EnvironmentKeepsClient DEF Falter, vars
<1>2. InnerStep
  BY <1>1 DEF NextUnsteady, NextSystem, ClientStep, MakeRequest, RequestTime, Transmit,
     SendAll, ReadDatagram, RecvPacket, SetClock, AdjustClock
<1>3. ReadClock
  <2>1. ~ (Ask \/ Listen)
    <3>1. \A ms : ~ SendTimeRequest(ms) /\ ~ ReceiveTimeResponse(ms)
      BY DEF SendTimeRequest, ReceiveTimeResponse, Call
    <3>2. QED
      BY <3>1 DEF Ask, Listen
  <2>2. ~ (Resolve \/ GenerateClientAuth \/ SendNothing \/ SendFails)
    BY DEF Resolve, ResolveDns, GenerateClientAuth, SendNothing, SendFails
  <2>3. ~ (FindNothing \/ RecvFails(buffer) \/ ValidateServerAuth)
    BY DEF FindNothing, RecvNothing, RecvFails, ValidateServerAuth
  <2>4. QED
    BY <1>2, <2>1, <2>2, <2>3 DEF InnerStep
<1>4. RecvRetry(Now)
  BY <1>3 DEF ReadClock, SendStart, SendRetry, ReceiveStart, ReceivedAt
<1>5. QED
  BY <1>4 DEF RecvRetry, Return, Goto

(* What it decides is right by the age that the host's clock gives the     *)
(* request.                                                                *)
LEMMA RetryDecidesByAge ==
    ASSUME SysInv, RequestAge, AgesToldApart, [NextUnsteady]_sysVars,
           pc = "recvRetry", pc' = "idle", ~ IsZero(lastRequest),
           gained >= 0, sinceRequest + gained < EraTicks - FractionsMod
    PROVE  LET age == sinceRequest + gained
           IN  IF result' = "TimedOut"
               THEN Millis(ResponseTimeoutMs) <= Ticks(age) + Loss
               ELSE Ticks(age) <= Millis(ResponseTimeoutMs - 1) + Loss
                                      + Ticks(FractionsPerMs - 1)
<1> DEFINE age == sinceRequest + gained
           ms  == CalculateElapsedMs(Now, lastRequest)
           D   == FractionsPerMs
           R   == ResponseTimeoutMs
<1>1. NextUnsteady
  BY DEF sysVars, vars
<1>2. /\ age \in Nat /\ ms \in Int
      /\ Millis(ms) <= Ticks(age) + Loss /\ Ticks(age) <= Millis(ms) + Loss + Ticks(D - 1)
  BY AgeMeasured
<1>3. D \in Nat /\ R \in Nat
  BY UnitTypes, ClientAssumption
<1>4. IF ms >= R THEN result' = "TimedOut" ELSE result' = "NothingYet"
  BY <1>1, RetryDecides
<1> HIDE DEF age, ms, D, R
<1>5. /\ Ticks(age) \in Int /\ Ticks(D - 1) \in Int
      /\ Millis(ms) \in Int /\ Millis(R) \in Int /\ Millis(R - 1) \in Int
  BY <1>2, <1>3, TicksOrder, MillisOrder
<1>6. CASE ms >= R
  <2>1. Millis(R) <= Millis(ms)
    BY <1>2, <1>3, <1>6, MillisOrder
  <2>2. Millis(R) <= Ticks(age) + Loss
    BY <1>2, <1>5, <2>1, LossType
  <2>3. QED
    BY <1>4, <1>6, <2>2 DEF age, R
<1>7. CASE ~ (ms >= R)
  <2>1. R - 1 \in Int /\ ms <= R - 1
    BY <1>2, <1>3, <1>7
  <2>2. Millis(ms) <= Millis(R - 1)
    BY <1>2, <2>1, MillisOrder
  <2>3. Ticks(age) <= Millis(R - 1) + Loss + Ticks(D - 1)
    BY <1>2, <1>5, <2>2, LossType
  <2>4. QED
    BY <1>4, <1>7, <2>3 DEF age, D, R
<1>8. QED
  BY <1>6, <1>7

(* A timeout is reported when the request is as old as the response        *)
(* timeout, and "nothing yet" only when it is not, to what a reading loses *)
(* (receive_time_response's retry) - also on a host whose clock is set     *)
(* back by an interrupt or another time source in the middle of a call, as *)
(* long as it has not lost since the request on the whole.                 *)
THEOREM TimeoutsTrueUnsteady ==
    ASSUME AgesToldApart
    PROVE  UnsteadySystemSpec => TimeoutIsTrue
<1> DEFINE age == sinceRequest + gained
           Premise == /\ pc = "recvRetry" /\ pc' = "idle" /\ ~ IsZero(lastRequest)
                      /\ gained >= 0 /\ age < EraTicks - FractionsMod
           Decided == IF result' = "TimedOut"
                      THEN Millis(ResponseTimeoutMs) <= Ticks(age) + Loss
                      ELSE Ticks(age) <= Millis(ResponseTimeoutMs - 1) + Loss
                                             + Ticks(FractionsPerMs - 1)
<1>1. InitSystem => RequestAge
  BY InitMeasured DEF Measured
<1>2. SysInv /\ RequestAge /\ [NextUnsteady]_sysVars => RequestAge'
  BY NextRequestAge
<1>3. SysInv /\ RequestAge /\ [NextUnsteady]_sysVars => (Premise => Decided)
  BY RetryDecidesByAge
<1>4. QED
  BY <1>1, <1>2, <1>3, UnsteadyInvariance, PTL DEF UnsteadySystemSpec, TimeoutIsTrue

(* The same on a host whose clock is only stepped, slewed and shared.      *)
THEOREM TimeoutsTrue ==
    ASSUME AgesToldApart
    PROVE  SystemSpec => TimeoutIsTrue
<1>1. [NextSystem]_sysVars => [NextUnsteady]_sysVars
  BY DEF NextUnsteady
<1>2. QED
  BY <1>1, TimeoutsTrueUnsteady, PTL DEF SystemSpec, UnsteadySystemSpec

(* An application that listens only while there is a request to listen     *)
(* for: not after a correction, nor after a transport that failed, which   *)
(* is also what a zero reading of the clock is reported as.                *)
ListensForAnswers == ListenAfter \cap {"none", "Synchronised", "Network"} = {}

(* Then there is one whenever it listens. *)
Listening  == pc \in ReceiveSteps \/ (pc = "idle" /\ result \in ListenAfter)
HasRequest == Listening => ~ IsZero(lastRequest)

LEMMA RequestListenedFor ==
    ASSUME ListensForAnswers, SysInv, HasRequest, [NextSystem]_sysVars
    PROVE  HasRequest'
<1> USE ApplicationAssumption DEF HasRequest, Listening, ListensForAnswers, MovedOn,
        ReceiveSteps, Goto, Return, Call, fields
<1>1. pc \in {"genAuth", "sendStart", "sendTo", "sendRetry"} => ~ IsZero(lastRequest)
  BY DEF SysInv, IInv, WireMatchesRequest
<1>2. CASE Environment \/ UNCHANGED sysVars
  BY <1>2, EnvironmentKeepsClient DEF sysVars, vars
<1>3. CASE MakeRequest \/ Transmit \/ ReadDatagram \/ SetClock
  <2>1. CASE MakeRequest
    BY <2>1 DEF MakeRequest, RequestTime
  <2>2. CASE Transmit
    BY <1>1, <2>2 DEF Transmit, SendAll
  <2>3. CASE ReadDatagram
    BY <2>3 DEF ReadDatagram, RecvPacket
  <2>4. CASE SetClock
    BY <2>4 DEF SetClock, AdjustClock
  <2>5. QED
    BY <1>3, <2>1, <2>2, <2>3, <2>4
<1>4. CASE Ask \/ Listen \/ Resolve
  BY <1>4 DEF Ask, Listen, Resolve, SendTimeRequest, ReceiveTimeResponse, ResolveDns
<1>5. CASE GenerateClientAuth \/ SendNothing \/ SendFails \/ SendStart(Now) \/ SendRetry(Now)
  BY <1>1, <1>5 DEF GenerateClientAuth, SendNothing, SendFails, SendStart, SendRetry
<1>6. CASE FindNothing \/ RecvFails(buffer) \/ ReceiveStart(Now) \/ RecvRetry(Now)
  BY <1>6 DEF FindNothing, RecvNothing, RecvFails, ReceiveStart, RecvRetry
<1>7. CASE ReceivedAt(Now) \/ ValidateServerAuth
  <2>1. pc \in ReceiveSteps
    BY <1>7 DEF ReceivedAt, ValidateServerAuth
  <2>2. lastRequest' = lastRequest \/ (pc' = "idle" /\ result' = "Rejected")
    BY <1>7 DEF ReceivedAt, ValidateServerAuth, JudgeResponse
  <2>3. QED
    BY <2>1, <2>2
<1>8. QED
  BY <1>2, <1>3, <1>4, <1>5, <1>6, <1>7
  DEF NextSystem, ClientStep, InnerStep, ReadClock

(* "The response timeout expired" holds as it is documented                *)
(* (Reception::TimedOut), by the true time, where one client alone sets a  *)
(* clock that steps and the application listens only                       *)
(* for requests it has sent - however long ago: an age beyond what the     *)
(* clock can tell is beyond any timeout.                                   *)
THEOREM TimeoutsExpired ==
    ASSUME AgesToldApart, ~ SharedHost, SlewLimit = 0, ListensForAnswers,
           Millis(ResponseTimeoutMs) <= Ticks(EraTicks - FractionsMod)
    PROVE  SystemSpec => TimedOutHasExpired
<1> DEFINE TimesOut == pc = "recvRetry" /\ pc' = "idle" /\ result' = "TimedOut"
           Expired  == Millis(ResponseTimeoutMs) <= Ticks(sinceRequest) + Loss
<1>1. InitSystem => KeepsPace /\ HasRequest
  <2>1. "none" \notin ListenAfter
    BY DEF ListensForAnswers
  <2>2. QED
    BY <2>1 DEF InitSystem, Init, KeepsPace, HasRequest, Listening, ReceiveSteps
<1>2. SysInv /\ KeepsPace /\ HasRequest /\ [NextSystem]_sysVars => KeepsPace' /\ HasRequest'
  BY PaceKept, RequestListenedFor
<1>3. ASSUME SysInv, Measured, KeepsPace, HasRequest, [NextSystem]_sysVars, TimesOut
      PROVE  Expired
  <2>1. /\ sinceRequest \in Nat /\ gained = 0 /\ EraTicks - FractionsMod \in Int
        /\ ResponseTimeoutMs \in Int
    BY <1>3, MeasuredTypes, UnitTypes, ClockConstants, ClientAssumption DEF SysInv, KeepsPace
  <2>2. CASE sinceRequest >= EraTicks - FractionsMod
    <3> DEFINE most == EraTicks - FractionsMod
    <3>1. most \in Int /\ most <= sinceRequest
      BY <2>1, <2>2
    <3> HIDE DEF most
    <3>2. Ticks(most) <= Ticks(sinceRequest) /\ Ticks(most) \in Int /\ Ticks(sinceRequest) \in Int
      BY <2>1, <3>1, TicksOrder
    <3>3. Millis(ResponseTimeoutMs) \in Int /\ Millis(ResponseTimeoutMs) <= Ticks(most)
      BY <2>1, MillisOrder DEF most
    <3>4. QED
      BY <3>2, <3>3, LossType
  <2>3. CASE sinceRequest < EraTicks - FractionsMod
    <3>1. ~ IsZero(lastRequest)
      BY <1>3 DEF HasRequest, Listening, ReceiveSteps
    <3>2. sinceRequest + gained = sinceRequest /\ gained >= 0 /\ RequestAge
          /\ [NextUnsteady]_sysVars
      BY <1>3, <2>1 DEF Measured, NextUnsteady
    <3>3. QED
      BY <1>3, <2>3, <3>1, <3>2, RetryDecidesByAge
  <2>4. QED
    BY <2>1, <2>2, <2>3
<1>4. SysInv /\ Measured /\ KeepsPace /\ HasRequest /\ [NextSystem]_sysVars =>
         (TimesOut => Expired)
  BY <1>3
<1>5. QED
  BY <1>1, <1>2, <1>4, SystemInvariance, MeasuredInvariance, PTL
  DEF SystemSpec, TimedOutHasExpired
=============================================================================
