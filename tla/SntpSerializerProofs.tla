------------------------ MODULE SntpSerializerProofs ------------------------
(***************************************************************************)
(* Proofs about the pure functions of the serializer: the arithmetic on    *)
(* timestamps and the codec. They hold for any widths, any divisor and any *)
(* length of a second that satisfy WidthsAssumption - the code's 2^32,     *)
(* 4 295 000 and 1000 among them -, for clocks in any era and for any      *)
(* random bits.                                                            *)
(***************************************************************************)
EXTENDS SntpBuffer, DivisionLemmas

-----------------------------------------------------------------------------
(* Milliseconds                                                            *)

(* A part of a second is less than a second: fractions_to_ms never rounds  *)
(* up into the next one ("gives 999 and not 1000").                        *)
LEMMA FractionsBelowSecond ==
    ASSUME NEW f \in 0 .. FractionsMod - 1
    PROVE  FractionsToMs(f) \in 0 .. MsPerSec - 1
<1>1. /\ FractionsPerMs \in Nat /\ FractionsPerMs > 0 /\ MsPerSec \in Nat
      /\ FractionsMod \in Nat /\ FractionsMod <= FractionsPerMs * MsPerSec
  BY WidthsAssumption
<1>2. FractionsPerMs * MsPerSec \in Nat
  BY <1>1
<1>3. f \in Nat /\ f < FractionsPerMs * MsPerSec
  BY <1>1, <1>2
<1>4. QED
  BY <1>1, <1>3, QuotientBelow DEF FractionsToMs

(* Half an era in milliseconds is a positive number, and an era twice it. *)
LEMMA EraLength ==
    /\ ClockOffsetMaxTimeDifference \in Nat \ {0}
    /\ TotalMillisecondsInNtpEra = 2 * ClockOffsetMaxTimeDifference
    /\ SecondsMod * MsPerSec = TotalMillisecondsInNtpEra
BY WidthsAssumption DEF ClockOffsetMaxTimeDifference, TotalMillisecondsInNtpEra, SecondsMod

(* as_millis of a timestamp lies within one era. *)
LEMMA AsMillisRange ==
    ASSUME NEW t \in Timestamp
    PROVE  AsMillis(t) \in 0 .. TotalMillisecondsInNtpEra - 1
<1>1. /\ t.seconds \in 0 .. SecondsMod - 1
      /\ t.fractions \in 0 .. FractionsMod - 1
  BY DEF Timestamp
<1>2. MsPerSec \in Nat /\ SecondsMod \in Nat /\ TotalMillisecondsInNtpEra \in Nat
  BY WidthsAssumption, EraLength DEF SecondsMod
<1>3. /\ t.seconds * MsPerSec \in Nat
      /\ t.seconds * MsPerSec <= (SecondsMod - 1) * MsPerSec
  BY <1>1, <1>2
<1>4. (SecondsMod - 1) * MsPerSec = TotalMillisecondsInNtpEra - MsPerSec
  BY <1>2, EraLength
<1>5. FractionsToMs(t.fractions) \in 0 .. MsPerSec - 1
  BY <1>1, FractionsBelowSecond
<1>6. QED
  BY <1>2, <1>3, <1>4, <1>5 DEF AsMillis

-----------------------------------------------------------------------------
(* The difference of two timestamps                                        *)

(* safe_time_difference picks, of the differences that the two readings    *)
(* allow (eras apart), the one in the half-open range of half an era       *)
(* around zero: none of its branches is missing a case, and the tie goes   *)
(* to the server being ahead.                                              *)
THEOREM SmallestDifference ==
    ASSUME NEW server \in Timestamp, NEW client \in Timestamp, NEW k \in Int,
           WithinHalfEra(AsMillis(server) - AsMillis(client) + TotalMillisecondsInNtpEra * k)
    PROVE  SafeTimeDifference(server, client)
             = AsMillis(server) - AsMillis(client) + TotalMillisecondsInNtpEra * k
<1> DEFINE d == AsMillis(server) - AsMillis(client)
           E == TotalMillisecondsInNtpEra
           H == ClockOffsetMaxTimeDifference
<1>1. H \in Nat \ {0} /\ E = 2 * H
  BY EraLength
<1>2. d \in Int /\ -E < d /\ d < E
  BY <1>1, AsMillisRange
<1>3. E * k \in Int /\ -H < d + E * k /\ d + E * k <= H
  BY <1>1, <1>2 DEF WithinHalfEra
<1>4. k \in {-1, 0, 1}
  <2>1. ASSUME k >= 2 PROVE FALSE
    <3>1. E * k >= E * 2
      BY <1>1, <2>1
    <3>2. QED
      BY <1>1, <1>2, <1>3, <3>1
  <2>2. ASSUME k <= -2 PROVE FALSE
    <3>1. E * k <= E * (-2)
      BY <1>1, <2>2
    <3>2. QED
      BY <1>1, <1>2, <1>3, <3>1
  <2>3. QED
    BY <2>1, <2>2
<1>5. CASE k = 0
  BY <1>1, <1>2, <1>3, <1>5 DEF SafeTimeDifference, AbsoluteOf
<1>6. CASE k = 1
  BY <1>1, <1>2, <1>3, <1>6 DEF SafeTimeDifference, AbsoluteOf
<1>7. CASE k = -1
  BY <1>1, <1>2, <1>3, <1>7 DEF SafeTimeDifference, AbsoluteOf
<1>8. QED
  BY <1>4, <1>5, <1>6, <1>7

-----------------------------------------------------------------------------
(* Two clocks                                                              *)

(* A reading is a timestamp, and what it drops of the true time is a whole *)
(* number of eras.                                                         *)
LEMMA StampDropsEras ==
    ASSUME NEW ticks \in Nat
    PROVE  /\ Stamp(ticks) \in Timestamp
           /\ \E eras \in Nat :
                 TrueMs(ticks) = AsMillis(Stamp(ticks)) + TotalMillisecondsInNtpEra * eras
<1> DEFINE s == ticks \div FractionsMod
           f == ticks % FractionsMod
           w == s % SecondsMod
           p == s \div SecondsMod
<1>1. /\ FractionsMod \in Nat /\ FractionsMod > 0
      /\ SecondsMod \in Nat /\ SecondsMod > 0
      /\ MsPerSec \in Nat
  BY WidthsAssumption DEF SecondsMod
<1>2. s \in Nat /\ f \in 0 .. FractionsMod - 1
  BY <1>1, DivMod
<1>3. w \in 0 .. SecondsMod - 1 /\ p \in Nat /\ w = s - SecondsMod * p
  BY <1>1, <1>2, DivMod
<1>4. Stamp(ticks) \in Timestamp
  BY <1>2, <1>3 DEF Stamp, Timestamp
<1>5. FractionsToMs(f) \in Int
  BY <1>2, FractionsBelowSecond
<1>6. s * MsPerSec = w * MsPerSec + (SecondsMod * MsPerSec) * p
  <2> HIDE DEF s, w, p
  <2>1. s = w + SecondsMod * p /\ w \in Int /\ s \in Int /\ p \in Int
    BY <1>1, <1>2, <1>3
  <2>2. QED
    BY <2>1, <1>1
<1>7. TrueMs(ticks) = AsMillis(Stamp(ticks)) + (SecondsMod * MsPerSec) * p
  <2>1. TrueMs(ticks) = s * MsPerSec + FractionsToMs(f)
    BY DEF TrueMs, FractionsToMs
  <2>2. AsMillis(Stamp(ticks)) = w * MsPerSec + FractionsToMs(f)
    BY DEF AsMillis, Stamp
  <2> HIDE DEF s, w, p, f
  <2>3. w * MsPerSec \in Int /\ (SecondsMod * MsPerSec) * p \in Int
    BY <1>1, <1>3
  <2>4. QED
    BY <1>5, <1>6, <2>1, <2>2, <2>3
<1>8. QED
  BY <1>3, <1>4, <1>7, EraLength

-----------------------------------------------------------------------------
(* A time of day is a number of seconds and a fraction                     *)

SecondOf(ticks)   == ticks \div FractionsMod
FractionOf(ticks) == ticks % FractionsMod

(* What the proofs use of the constants. *)
LEMMA UnitTypes ==
    /\ FractionsMod \in Nat /\ FractionsMod > 0
    /\ FractionsPerMs \in Nat /\ FractionsPerMs > 0
    /\ MsPerSec \in Nat /\ MsPerSec > 0
    /\ SecondsMod \in Nat /\ SecondsMod > 0
    /\ SecondsMod * MsPerSec < U64Mod /\ U64Mod \in Nat
BY WidthsAssumption, EraLength
DEF SecondsMod, TotalMillisecondsInNtpEra, ClockOffsetMaxTimeDifference

LEMMA ReadingOf ==
    ASSUME NEW ticks \in Nat
    PROVE  /\ SecondOf(ticks) \in Nat
           /\ FractionOf(ticks) \in 0 .. FractionsMod - 1
           /\ ticks = FractionsMod * SecondOf(ticks) + FractionOf(ticks)
           /\ FractionsToMs(FractionOf(ticks)) \in 0 .. MsPerSec - 1
           /\ TrueMs(ticks) = SecondOf(ticks) * MsPerSec + FractionsToMs(FractionOf(ticks))
           /\ Stamp(ticks).seconds = SecondOf(ticks) % SecondsMod
           /\ Stamp(ticks).fractions = FractionOf(ticks)
<1> DEFINE s == SecondOf(ticks)
           f == FractionOf(ticks)
<1>1. s \in Nat /\ f \in 0 .. FractionsMod - 1 /\ f = ticks - FractionsMod * s
  BY DivMod, UnitTypes DEF SecondOf, FractionOf
<1>2. FractionsToMs(f) \in 0 .. MsPerSec - 1
  BY <1>1, FractionsBelowSecond
<1>3. /\ TrueMs(ticks) = s * MsPerSec + FractionsToMs(f)
      /\ Stamp(ticks).seconds = s % SecondsMod
      /\ Stamp(ticks).fractions = f
  BY DEF TrueMs, Stamp, FractionsToMs, SecondOf, FractionOf
<1> HIDE DEF s, f
<1>4. FractionsMod * s \in Int /\ ticks = FractionsMod * s + f
  BY <1>1, UnitTypes
<1>5. QED
  BY <1>1, <1>2, <1>3, <1>4 DEF s, f

(* Seconds do not go back while the ticks advance, and a second later is   *)
(* at least as many seconds later as whole seconds fit in between.         *)
LEMMA SecondMonotone ==
    ASSUME NEW m \in Nat, NEW n \in Nat, m <= n
    PROVE  SecondOf(m) <= SecondOf(n)
BY QuotientMonotone, UnitTypes DEF SecondOf

LEMMA NextTick ==
    ASSUME NEW ticks \in Nat
    PROVE  \/ /\ SecondOf(ticks + 1) = SecondOf(ticks)
              /\ FractionOf(ticks + 1) = FractionOf(ticks) + 1
           \/ /\ SecondOf(ticks + 1) = SecondOf(ticks) + 1
              /\ FractionOf(ticks) = FractionsMod - 1
              /\ FractionOf(ticks + 1) = 0
<1> DEFINE s == SecondOf(ticks)
           f == FractionOf(ticks)
           t == SecondOf(ticks + 1)
           g == FractionOf(ticks + 1)
           F == FractionsMod
<1>1. /\ s \in Nat /\ t \in Nat /\ f \in 0 .. F - 1 /\ g \in 0 .. F - 1
      /\ ticks = F * s + f /\ ticks + 1 = F * t + g
  BY ReadingOf
<1>2. F \in Nat /\ F > 0 /\ s <= t
  BY UnitTypes, SecondMonotone
<1> HIDE DEF s, f, t, g, F
<1>3. F * s \in Int /\ F * t \in Int
  BY <1>1, <1>2
<1>4. ASSUME t >= s + 2 PROVE FALSE
  <2>1. F * t >= F * (s + 2)
    BY <1>1, <1>2, <1>4
  <2>2. F * (s + 2) = F * s + 2 * F
    BY <1>1, <1>2
  <2>3. QED
    BY <1>1, <1>2, <1>3, <2>1, <2>2
<1>5. CASE t = s
  BY <1>1, <1>2, <1>3, <1>5 DEF s, f, t, g, F
<1>6. CASE t = s + 1
  <2>1. F * t = F * s + F
    BY <1>1, <1>2, <1>6
  <2>2. f = F - 1 /\ g = 0
    BY <1>1, <1>2, <1>3, <2>1
  <2>3. QED
    BY <1>6, <2>2 DEF s, f, t, g, F
<1>7. QED
  BY <1>1, <1>2, <1>4, <1>5, <1>6

-----------------------------------------------------------------------------
(* Distances of fractions                                                  *)

(* What calculate_elapsed_ms adds to the whole seconds: the distance of    *)
(* the fractions, truncated toward zero.                                   *)
PartialMs(from, to) ==
    IF to > from THEN FractionsToMs(to - from) ELSE -FractionsToMs(from - to)

(* It is the difference of the truncated fractions, to a millisecond.      *)
LEMMA PartialMsAccurate ==
    ASSUME NEW from \in Nat, NEW to \in Nat
    PROVE  /\ PartialMs(from, to) \in Int
           /\ to > from => /\ PartialMs(from, to) >= 0
                           /\ PartialMs(from, to) <= FractionsToMs(to) - FractionsToMs(from)
                           /\ PartialMs(from, to) >= FractionsToMs(to) - FractionsToMs(from) - 1
           /\ to <= from => /\ PartialMs(from, to) <= 0
                            /\ PartialMs(from, to) >= FractionsToMs(to) - FractionsToMs(from)
                            /\ PartialMs(from, to) <= FractionsToMs(to) - FractionsToMs(from) + 1
<1> DEFINE D == FractionsPerMs
<1>0. D \in Nat /\ D > 0
  BY UnitTypes
<1>1. ASSUME NEW a \in Nat, NEW b \in Nat, a <= b
      PROVE  /\ FractionsToMs(b - a) \in Nat
             /\ FractionsToMs(a) \in Nat /\ FractionsToMs(b) \in Nat
             /\ FractionsToMs(b - a) <= FractionsToMs(b) - FractionsToMs(a)
             /\ FractionsToMs(b - a) >= FractionsToMs(b) - FractionsToMs(a) - 1
  <2> DEFINE p == FractionsToMs(a)
             q == FractionsToMs(b)
             r == FractionsToMs(b - a)
  <2>1. b - a \in Nat
    BY <1>1
  <2>2. /\ p \in Nat /\ D * p <= a /\ a < D * p + D
        /\ q \in Nat /\ D * q <= b /\ b < D * q + D
        /\ r \in Nat /\ D * r <= b - a /\ b - a < D * r + D
    BY <1>0, <2>1, DivMod DEF FractionsToMs
  <2> HIDE DEF p, q, r, D
  <2>3. D * p \in Int /\ D * q \in Int /\ D * r \in Int
    BY <1>0, <2>2
  <2>4. ASSUME r >= q - p + 1 PROVE FALSE
    <3>1. D * (r + p) >= D * (q + 1)
      BY <1>0, <2>2, <2>4
    <3>2. D * (r + p) = D * r + D * p /\ D * (q + 1) = D * q + D
      BY <1>0, <2>2
    <3>3. QED
      BY <1>0, <2>2, <2>3, <3>1, <3>2
  <2>5. ASSUME r <= q - p - 2 PROVE FALSE
    <3>1. D * (r + p + 2) <= D * q
      BY <1>0, <2>2, <2>5
    <3>2. D * (r + p + 2) = D * r + D * p + 2 * D
      BY <1>0, <2>2
    <3>3. QED
      BY <1>0, <2>2, <2>3, <3>1, <3>2
  <2>6. r <= q - p /\ r >= q - p - 1
    BY <2>2, <2>4, <2>5
  <2>7. QED
    BY <2>2, <2>6 DEF p, q, r
<1>2. CASE to > from
  BY <1>1, <1>2 DEF PartialMs
<1>3. CASE to <= from
  <2>1. /\ FractionsToMs(from - to) \in Nat
        /\ FractionsToMs(to) \in Nat /\ FractionsToMs(from) \in Nat
        /\ FractionsToMs(from - to) <= FractionsToMs(from) - FractionsToMs(to)
        /\ FractionsToMs(from - to) >= FractionsToMs(from) - FractionsToMs(to) - 1
    BY <1>1, <1>3
  <2>2. PartialMs(from, to) = -FractionsToMs(from - to)
    BY <1>3 DEF PartialMs
  <2> DEFINE p == FractionsToMs(to)
             q == FractionsToMs(from)
             r == FractionsToMs(from - to)
             d == PartialMs(from, to)
  <2> HIDE DEF p, q, r, d
  <2>3. r \in Nat /\ p \in Nat /\ q \in Nat /\ r <= q - p /\ r >= q - p - 1 /\ d = -r
    BY <2>1, <2>2 DEF p, q, r, d
  <2>4. d \in Int /\ d <= 0 /\ d >= p - q /\ d <= p - q + 1
    BY <2>3
  <2>5. QED
    BY <1>3, <2>4 DEF p, q, d
<1>4. QED
  BY <1>2, <1>3

(* It grows with every tick, also when a second ends. *)
LEMMA PartialMsGrows ==
    ASSUME NEW from \in 0 .. FractionsMod - 1, NEW to \in 0 .. FractionsMod - 1
    PROVE  /\ PartialMs(from, to + 1) >= PartialMs(from, to)
           /\ MsPerSec + PartialMs(from, 0) >= PartialMs(from, FractionsMod - 1)
           /\ MsPerSec + PartialMs(from, to) > 0
           /\ PartialMs(from, to) < MsPerSec
<1>1. from \in Nat /\ to \in Nat /\ FractionsMod - 1 \in 0 .. FractionsMod - 1
  BY UnitTypes
<1>2. ASSUME NEW a \in Nat, NEW b \in Nat, a <= b
      PROVE  FractionsToMs(a) \in Nat /\ FractionsToMs(a) <= FractionsToMs(b)
  BY <1>2, QuotientMonotone, DivMod, UnitTypes DEF FractionsToMs
<1>3. PartialMs(from, to + 1) >= PartialMs(from, to)
  <2>1. CASE to > from
    <3>1. FractionsToMs(to - from) <= FractionsToMs(to + 1 - from)
      BY <1>1, <1>2, <2>1
    <3>2. QED
      BY <1>1, <2>1, <3>1 DEF PartialMs
  <2>2. CASE to = from
    <3>1. /\ FractionsToMs(from - to) = FractionsToMs(0)
          /\ FractionsToMs(0) \in Nat /\ FractionsToMs(to + 1 - from) \in Nat
      BY <1>1, <1>2, <2>2
    <3>2. QED
      BY <1>1, <2>2, <3>1 DEF PartialMs
  <2>3. CASE to < from
    <3>1. /\ FractionsToMs(from - (to + 1)) <= FractionsToMs(from - to)
          /\ FractionsToMs(from - (to + 1)) \in Nat
          /\ FractionsToMs(from - to) \in Nat
      BY <1>1, <1>2, <2>3
    <3>2. QED
      BY <1>1, <2>3, <3>1 DEF PartialMs
  <2>4. QED
    BY <1>1, <2>1, <2>2, <2>3
<1>4. ASSUME NEW f \in 0 .. FractionsMod - 1
      PROVE  FractionsToMs(f) \in 0 .. MsPerSec - 1
  BY FractionsBelowSecond
<1>5. MsPerSec + PartialMs(from, 0) >= PartialMs(from, FractionsMod - 1)
  <2> DEFINE last == FractionsMod - 1
  <2>1. last \in Nat /\ from <= last /\ FractionsToMs(last) <= MsPerSec - 1
        /\ MsPerSec \in Nat
    BY <1>1, <1>4, UnitTypes
  <2>2. FractionsToMs(0) = 0
    BY UnitTypes DEF FractionsToMs
  <2>3. FractionsToMs(from) \in Nat /\ FractionsToMs(last) \in Nat
    BY <1>1, <1>4, <2>1
  <2>4. PartialMs(from, 0) >= -FractionsToMs(from)
    BY <1>1, <2>2, <2>3, PartialMsAccurate
  <2>5. PartialMs(from, last) <= FractionsToMs(last) - FractionsToMs(from) + 1
    BY <1>1, <2>1, <2>3, PartialMsAccurate
  <2>6. PartialMs(from, 0) \in Int /\ PartialMs(from, last) \in Int
    BY <1>1, <2>1, PartialMsAccurate
  <2>7. QED
    BY <2>1, <2>3, <2>4, <2>5, <2>6
<1>6. MsPerSec + PartialMs(from, to) > 0 /\ PartialMs(from, to) < MsPerSec
  <2>1. FractionsToMs(from) \in 0 .. MsPerSec - 1 /\ FractionsToMs(to) \in 0 .. MsPerSec - 1
    BY <1>4
  <2>2. MsPerSec \in Nat /\ PartialMs(from, to) \in Int
    BY <1>1, UnitTypes, PartialMsAccurate
  <2>3. CASE to > from
    <3>1. PartialMs(from, to) >= 0
          /\ PartialMs(from, to) <= FractionsToMs(to) - FractionsToMs(from)
      BY <1>1, <2>3, PartialMsAccurate
    <3>2. QED
      BY <2>1, <2>2, <3>1
  <2>4. CASE to <= from
    <3>1. PartialMs(from, to) <= 0
          /\ PartialMs(from, to) >= FractionsToMs(to) - FractionsToMs(from)
      BY <1>1, <2>4, PartialMsAccurate
    <3>2. QED
      BY <2>1, <2>2, <3>1
  <2>5. QED
    BY <1>1, <2>3, <2>4
<1>7. QED
  BY <1>3, <1>5, <1>6

-----------------------------------------------------------------------------
(* Elapsed time                                                            *)

(* The seconds of calculate_elapsed_ms: the era that the readings lack is  *)
(* recovered as long as less than one has passed.                          *)
LEMMA SecondsBetween ==
    ASSUME NEW from \in Nat, NEW to \in Nat, from <= to, to - from < SecondsMod
    PROVE  /\ to % SecondsMod < from % SecondsMod =>
                 to - from = SecondsMod - (from % SecondsMod) + (to % SecondsMod)
           /\ ~ (to % SecondsMod < from % SecondsMod) =>
                 to - from = (to % SecondsMod) - (from % SecondsMod)
<1> DEFINE S == SecondsMod
           a == from \div S
           q == from % S
           b == to \div S
           r == to % S
<1>1. /\ a \in Nat /\ q \in 0 .. S - 1 /\ q = from - S * a
      /\ b \in Nat /\ r \in 0 .. S - 1 /\ r = to - S * b
  BY UnitTypes, DivMod
<1>2. S \in Nat /\ S > 0 /\ to - from < S
  BY UnitTypes
<1> HIDE DEF S, a, b, q, r
<1>3. S * a \in Int /\ S * b \in Int /\ S * (b - a) = S * b - S * a
  BY <1>1, <1>2
<1>4. to - from = S * (b - a) + r - q
  BY <1>1, <1>2, <1>3
<1>5. b - a \in {0, 1}
  <2>1. ASSUME b - a >= 2 PROVE FALSE
    <3>1. S * (b - a) >= S * 2
      BY <1>1, <1>2, <2>1
    <3>2. QED
      BY <1>1, <1>2, <1>3, <1>4, <3>1
  <2>2. ASSUME b - a <= -1 PROVE FALSE
    <3>1. S * (b - a) <= S * (-1)
      BY <1>1, <1>2, <2>2
    <3>2. QED
      BY <1>1, <1>2, <1>3, <1>4, <3>1
  <2>3. QED
    BY <1>1, <2>1, <2>2
<1>6. S * (b - a) = IF b - a = 1 THEN S ELSE 0
  BY <1>1, <1>2, <1>5
<1>7. /\ r < q => to - from = S - q + r
      /\ ~ (r < q) => to - from = r - q
  BY <1>1, <1>2, <1>4, <1>5, <1>6
<1>8. QED
  BY <1>7 DEF S, q, r

(* calculate_elapsed_ms never borrows from the u64 on such readings, and   *)
(* its result is the true seconds and the truncated rest.                  *)
LEMMA ElapsedIs ==
    ASSUME NEW older \in Timestamp, NEW current \in Timestamp,
           NEW from \in Nat, NEW to \in Nat, from <= to, to - from < SecondsMod,
           older.seconds = from % SecondsMod, current.seconds = to % SecondsMod,
           from = to => PartialMs(older.fractions, current.fractions) >= 0
    PROVE  CalculateElapsedMs(current, older)
             = (to - from) * MsPerSec + PartialMs(older.fractions, current.fractions)
<1> DEFINE n == to - from
           rest == PartialMs(older.fractions, current.fractions)
           M == MsPerSec
           S == SecondsMod
<1>1. older.fractions \in 0 .. FractionsMod - 1 /\ current.fractions \in 0 .. FractionsMod - 1
  BY DEF Timestamp
<1>2. older.fractions \in Nat /\ current.fractions \in Nat
  BY <1>1, UnitTypes
<1>3. rest \in Int /\ M + rest > 0 /\ rest < M
  BY <1>1, <1>2, PartialMsAccurate, PartialMsGrows
<1>4. /\ n \in Nat /\ n <= S - 1
      /\ n = 0 => rest >= 0
      /\ M \in Nat /\ S \in Nat /\ S * M < U64Mod /\ U64Mod \in Nat
  BY UnitTypes
<1>5. n = IF current.seconds < older.seconds
          THEN SecondsMod - older.seconds + current.seconds
          ELSE current.seconds - older.seconds
  <2>1. CASE current.seconds < older.seconds
    BY <2>1, SecondsBetween
  <2>2. CASE ~ (current.seconds < older.seconds)
    BY <2>2, SecondsBetween
  <2>3. QED
    BY <2>1, <2>2
<1>6. CalculateElapsedMs(current, older) = (n * M + rest) % U64Mod
  <2>1. CASE current.fractions > older.fractions
    BY <1>5, <2>1 DEF CalculateElapsedMs, PartialMs, FractionsToMs
  <2>2. CASE ~ (current.fractions > older.fractions)
    <3>1. rest = -FractionsToMs(older.fractions - current.fractions)
      BY <2>2 DEF PartialMs
    <3> DEFINE back == FractionsToMs(older.fractions - current.fractions)
    <3>2. back \in Nat
      <4>1. older.fractions - current.fractions \in Nat
        BY <1>2, <2>2
      <4>2. QED
        BY <4>1, UnitTypes, DivMod DEF FractionsToMs
    <3>3. CalculateElapsedMs(current, older) = (n * M - back) % U64Mod
      BY <1>5, <2>2 DEF CalculateElapsedMs, FractionsToMs
    <3> HIDE DEF n, M, back, rest
    <3>4. n * M \in Int
      BY <1>4
    <3>5. n * M - back = n * M + rest
      BY <3>1, <3>2, <3>4 DEF back
    <3>6. QED
      BY <3>3, <3>5
  <2>3. QED
    BY <2>1, <2>2
<1> HIDE DEF n, rest, M, S
<1>7. n * M + rest \in Nat /\ n * M + rest < U64Mod
  <2>1. n * M <= (S - 1) * M /\ n * M \in Nat /\ (S - 1) * M = S * M - M /\ S * M \in Nat
    BY <1>4
  <2>2. n # 0 => n * M >= M
    BY <1>4
  <2>3. QED
    BY <1>3, <1>4, <2>1, <2>2
<1>8. (n * M + rest) % U64Mod = n * M + rest
  BY <1>4, <1>7
<1>9. QED
  BY <1>6, <1>8 DEF n, rest, M

(* Less than a millisecond apart, the truncated fractions are at most one  *)
(* apart.                                                                  *)
LEMMA WithinAMillisecond ==
    ASSUME NEW f \in Nat, NEW g \in Nat, f <= g, g < f + FractionsPerMs
    PROVE  /\ FractionsToMs(g - f) = 0
           /\ FractionsToMs(f) \in Nat
           /\ FractionsToMs(g) \in FractionsToMs(f) .. FractionsToMs(f) + 1
<1>1. g - f \in Nat /\ g - f < FractionsPerMs * 1 /\ FractionsPerMs \in Nat
  BY UnitTypes
<1>2. FractionsToMs(g - f) \in 0 .. 1 - 1
  BY <1>1, UnitTypes, QuotientBelow DEF FractionsToMs
<1>3. FractionsToMs(g - f) = 0
  BY <1>2
<1>4. FractionsToMs(f) \in Nat /\ FractionsToMs(g) \in Nat
  BY DivMod, UnitTypes DEF FractionsToMs
<1>5. FractionsToMs(f) <= FractionsToMs(g)
  BY QuotientMonotone, UnitTypes DEF FractionsToMs
<1>6. FractionsToMs(g) <= FractionsToMs(f) + 1
  <2>1. CASE g > f
    <3>1. PartialMs(f, g) = 0 /\ PartialMs(f, g) >= FractionsToMs(g) - FractionsToMs(f) - 1
      BY <1>3, <2>1, PartialMsAccurate DEF PartialMs
    <3>2. QED
      BY <1>4, <3>1
  <2>2. CASE g = f
    BY <1>4, <2>2
  <2>3. QED
    BY <2>1, <2>2
<1>7. QED
  BY <1>3, <1>4, <1>5, <1>6

(* A timestamp is what a clock read at some time, with random bits that    *)
(* are less than a millisecond in its fraction: the time of a request.     *)
ReadAt(t, ticks) ==
    /\ t.seconds = Stamp(ticks).seconds
    /\ Stamp(ticks).fractions <= t.fractions
    /\ t.fractions < Stamp(ticks).fractions + FractionsPerMs

(* Times less than an era less a second apart. *)
LEMMA SecondsApart ==
    ASSUME NEW from \in Nat, NEW to \in Nat, from <= to,
           to - from < (SecondsMod - 1) * FractionsMod
    PROVE  /\ SecondOf(from) <= SecondOf(to)
           /\ SecondOf(to) - SecondOf(from) < SecondsMod
<1> DEFINE n == SecondOf(to)
           s == SecondOf(from)
           f == FractionOf(to)
           g == FractionOf(from)
           F == FractionsMod
           S == SecondsMod
<1>1. /\ n \in Nat /\ f \in 0 .. F - 1 /\ to = F * n + f
      /\ s \in Nat /\ g \in 0 .. F - 1 /\ from = F * s + g
  BY ReadingOf
<1>2. F \in Nat /\ F > 0 /\ S \in Nat /\ to - from < (S - 1) * F
  BY UnitTypes
<1>3. s <= n
  BY SecondMonotone
<1> HIDE DEF n, s, f, g, F, S
<1>4. /\ F * n \in Int /\ F * s \in Int /\ F * (n - s) = F * n - F * s
      /\ (S - 1) * F = F * S - F /\ F * S \in Int
  BY <1>1, <1>2
<1>5. F * (n - s) < F * S
  BY <1>1, <1>2, <1>4
<1>6. ASSUME n - s >= S PROVE FALSE
  <2>1. F * (n - s) >= F * S
    BY <1>1, <1>2, <1>6
  <2>2. QED
    BY <1>4, <1>5, <2>1
<1>7. n - s < S
  BY <1>1, <1>2, <1>6
<1>8. QED
  BY <1>3, <1>7 DEF n, s, S

(* calculate_elapsed_ms from a request to a later reading, in whatever     *)
(* eras the two stand.                                                     *)
LEMMA ElapsedBetween ==
    ASSUME NEW from \in Nat, NEW to \in Nat, from <= to,
           to - from < (SecondsMod - 1) * FractionsMod,
           NEW t \in Timestamp, ReadAt(t, from)
    PROVE  CalculateElapsedMs(Stamp(to), t)
             = (SecondOf(to) - SecondOf(from)) * MsPerSec
                 + PartialMs(t.fractions, FractionOf(to))
<1> DEFINE r == t.fractions
           f == FractionOf(to)
           g == FractionOf(from)
<1>1. f \in 0 .. FractionsMod - 1 /\ SecondOf(to) \in Nat
  BY ReadingOf
<1>2. g \in 0 .. FractionsMod - 1 /\ SecondOf(from) \in Nat
  BY ReadingOf
<1>3. /\ t.seconds = SecondOf(from) % SecondsMod
      /\ g <= r /\ r < g + FractionsPerMs
  BY ReadingOf DEF ReadAt
<1>4. r \in 0 .. FractionsMod - 1 /\ FractionsMod \in Nat
  BY UnitTypes DEF Timestamp
<1>5. SecondOf(from) = SecondOf(to) => PartialMs(r, f) >= 0
  <2> SUFFICES ASSUME SecondOf(from) = SecondOf(to) PROVE PartialMs(r, f) >= 0
    OBVIOUS
  <2>1. g <= f
    <3>1. /\ to = FractionsMod * SecondOf(to) + f
          /\ from = FractionsMod * SecondOf(to) + g
          /\ FractionsMod * SecondOf(to) \in Int
      BY <1>1, ReadingOf, UnitTypes
    <3> HIDE DEF f, g
    <3>2. QED
      BY <1>1, <1>2, <3>1
  <2>2. CASE f > r
    BY <1>1, <1>4, <2>2, PartialMsAccurate
  <2>3. CASE f <= r
    <3>1. r < f + FractionsPerMs /\ r \in Nat /\ f \in Nat /\ g \in Nat
      BY <1>1, <1>2, <1>3, <1>4, <2>1, UnitTypes
    <3>2. FractionsToMs(r - f) = 0
      BY <2>3, <3>1, WithinAMillisecond
    <3>3. QED
      BY <2>3, <3>1, <3>2 DEF PartialMs
  <2>4. QED
    BY <1>1, <1>4, <2>2, <2>3
<1>6. /\ Stamp(to) \in Timestamp
      /\ Stamp(to).seconds = SecondOf(to) % SecondsMod
      /\ Stamp(to).fractions = f
  BY ReadingOf, StampDropsEras
<1>7. SecondOf(from) <= SecondOf(to) /\ SecondOf(to) - SecondOf(from) < SecondsMod
  BY SecondsApart
<1>8. QED
  BY <1>1, <1>2, <1>3, <1>5, <1>6, <1>7, ElapsedIs

-----------------------------------------------------------------------------
(* Offsets                                                                 *)

(* Half of a sum, truncated toward zero, doubled again. *)
LEMMA HalfDoubled ==
    ASSUME NEW n \in Int
    PROVE  HalfTowardZero(n) \in Int /\ 2 * HalfTowardZero(n) \in n - 1 .. n + 1
<1>1. CASE n < 0
  BY <1>1 DEF HalfTowardZero
<1>2. CASE n >= 0
  BY <1>2 DEF HalfTowardZero
<1>3. QED
  BY <1>1, <1>2

(* A timestamp stands for a time if it lacks nothing but whole eras of it; *)
(* of two such, safe_time_difference is the difference of the times.       *)
StandsFor(t, ms) ==
    /\ t \in Timestamp
    /\ \E eras \in Int : ms = AsMillis(t) + TotalMillisecondsInNtpEra * eras

LEMMA DifferenceOfTimes ==
    ASSUME NEW server, NEW client, NEW serverMs \in Int, NEW clientMs \in Int,
           StandsFor(server, serverMs), StandsFor(client, clientMs),
           WithinHalfEra(serverMs - clientMs)
    PROVE  SafeTimeDifference(server, client) = serverMs - clientMs
<1> DEFINE E == TotalMillisecondsInNtpEra
<1>1. PICK i \in Int : serverMs = AsMillis(server) + E * i
  BY DEF StandsFor
<1>2. PICK j \in Int : clientMs = AsMillis(client) + E * j
  BY DEF StandsFor
<1>3. server \in Timestamp /\ client \in Timestamp
  BY DEF StandsFor
<1>4. AsMillis(server) \in Int /\ AsMillis(client) \in Int /\ E \in Int
  BY <1>3, AsMillisRange, EraLength
<1> HIDE DEF E
<1>5. E * i - E * j = E * (i - j) /\ E * i \in Int /\ E * j \in Int
  BY <1>4
<1>6. serverMs - clientMs = AsMillis(server) - AsMillis(client) + E * (i - j)
  BY <1>1, <1>2, <1>4, <1>5
<1>7. i - j \in Int
  OBVIOUS
<1>8. QED
  BY <1>3, <1>6, <1>7, SmallestDifference DEF E

LEMMA StampStandsFor ==
    ASSUME NEW ticks \in Nat
    PROVE  TrueMs(ticks) \in Nat /\ StandsFor(Stamp(ticks), TrueMs(ticks))
<1>1. StandsFor(Stamp(ticks), TrueMs(ticks))
  BY StampDropsEras DEF StandsFor
<1>2. /\ TrueMs(ticks) = SecondOf(ticks) * MsPerSec + FractionsToMs(FractionOf(ticks))
      /\ SecondOf(ticks) \in Nat /\ FractionsToMs(FractionOf(ticks)) \in Nat /\ MsPerSec \in Nat
  BY ReadingOf, UnitTypes
<1>3. SecondOf(ticks) * MsPerSec \in Nat
  BY <1>2
<1>4. QED
  BY <1>1, <1>2, <1>3

-----------------------------------------------------------------------------
(* Lemmas about the codec's operators                                      *)

(* The zero timestamp is one, whatever the widths. *)
LEMMA ZeroTimeType == ZeroTime \in Timestamp
BY WidthsAssumption DEF ZeroTime, Timestamp, SecondsMod

(* What a clock reads is a timestamp. *)
LEMMA StampType ==
    ASSUME NEW ticks \in Nat
    PROVE  Stamp(ticks) \in Timestamp
BY StampDropsEras

(* Or-ing random bits into a reading gives a timestamp, and never turns a  *)
(* non-zero one into zero (serialize_request).                             *)
LEMMA UnpredictableTime ==
    ASSUME NEW time \in Timestamp, NEW mask \in RandomMasks, NEW t \in Unpredictable(time, mask)
    PROVE  /\ t \in Timestamp
           /\ ~ IsZero(time) => ~ IsZero(t)
<1>1. PICK f \in BitOr(time.fractions, mask) : t = [time EXCEPT !.fractions = f]
  BY DEF Unpredictable
<1>2. f \in Int /\ time.fractions <= f /\ f <= FractionsMod - 1
  BY WidthsAssumption, RandomAssumption DEF BitOr, Timestamp
<1>3. t \in Timestamp
  BY <1>1, <1>2, WidthsAssumption DEF Timestamp
<1>4. ASSUME ~ IsZero(time) PROVE ~ IsZero(t)
  BY <1>1, <1>2, <1>4, WidthsAssumption DEF Timestamp, IsZero
<1>5. QED
  BY <1>3, <1>4

(* A request is a packet. *)
LEMMA RequestPacketType ==
    ASSUME NEW t \in Timestamp
    PROVE  RequestPacket(t) \in Packet
BY ZeroTimeType DEF RequestPacket, Packet, Modes, Strata, KissStratum, KissCodes,
                    LeapSeconds

-----------------------------------------------------------------------------
(* The buffer                                                              *)

(* Whatever a buffer held, what serialize_request leaves in it reads as    *)
(* the request packet that SntpClient puts on the wire, and what lies      *)
(* behind the header is as it was: the packet records of SntpClient lose   *)
(* nothing of the buffer that matters.                                     *)
THEOREM RequestLayout ==
    ASSUME NEW cells, Header \subseteq DOMAIN cells, NEW time \in Timestamp
    PROVE  /\ PacketOf(SerializeRequest(time, cells)) = RequestPacket(time)
           /\ \A o \in DOMAIN cells \ Header :
                 SerializeRequest(time, cells)[o] = cells[o]
<1> DEFINE written == SerializeRequest(time, cells)
<1>1. Header = {0, 1, 2, 3, 4, 8, 12, 16, 20, 24, 28, 32, 36, 40, 44}
  BY DEF Header
<1>2. /\ written[LeapVersionMode] = 35
      /\ written[TransmitSeconds] = time.seconds
      /\ written[TransmitFractions] = time.fractions
  BY <1>1 DEF SerializeRequest, LeapVersionMode, TransmitSeconds, TransmitFractions,
              Version, ModeClient
<1>3. \A o \in {Stratum, RefId, OriginSeconds, OriginFractions, ReceiveSeconds,
              ReceiveFractions} : written[o] = 0
  BY <1>1 DEF SerializeRequest, LeapVersionMode, TransmitSeconds, TransmitFractions,
              Stratum, RefId, OriginSeconds, OriginFractions, ReceiveSeconds,
              ReceiveFractions
<1>4. \A o \in DOMAIN cells \ Header : written[o] = cells[o]
  BY <1>1 DEF SerializeRequest, LeapVersionMode, TransmitSeconds, TransmitFractions
<1> HIDE DEF written
<1>5. ModeOf(35) = "client" /\ LeapOf(35) = "None" /\ CodeOf(0) = "????"
  BY DEF ModeOf, LeapOf, CodeOf, ModeServer, ModeClient, KodDeny, KodRstr, KodRate
<1>6. [seconds |-> time.seconds, fractions |-> time.fractions] = time
  BY DEF Timestamp
<1>7. PacketOf(written) = RequestPacket(time)
  BY <1>2, <1>3, <1>5, <1>6
  DEF PacketOf, RequestPacket, TimestampAt, ZeroTime
<1>8. QED
  BY <1>4, <1>7 DEF written
=============================================================================
