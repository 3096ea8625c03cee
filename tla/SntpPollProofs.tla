--------------------------- MODULE SntpPollProofs ---------------------------
(***************************************************************************)
(* Proofs about the poll interval, for any width of the word, any greatest *)
(* argument and any scale that fit together as PollAssumption says - 32    *)
(* bits, 65 535 and 1000 among them.                                       *)
(***************************************************************************)
EXTENDS SntpPoll, DivisionLemmas, FiniteSetTheorems, WellFoundedInduction

-----------------------------------------------------------------------------
(* Powers of two                                                           *)

(* A set of numbers has a least member: induction, as a counterexample     *)
(* that has no predecessor.                                                *)
LEMMA LeastNumber ==
    ASSUME NEW T, T \subseteq Nat, T # {}
    PROVE  \E n \in T : \A m \in T : n <= m
<1>1. IsWellFoundedOn({pair \in Nat \X Nat : pair[1] < pair[2]}, Nat)
  BY NatLessThanWellFounded DEF OpToRel
<1>2. PICK n \in T : \A m \in T : ~ (<<m, n>> \in {pair \in Nat \X Nat : pair[1] < pair[2]})
  BY <1>1, WFMin
<1>3. ASSUME NEW m \in T PROVE n <= m
  <2>1. m \in Nat /\ n \in Nat /\ <<m, n>> \in Nat \X Nat
    OBVIOUS
  <2>2. ~ (<<m, n>>[1] < <<m, n>>[2])
    BY <1>2, <2>1
  <2>3. QED
    BY <2>1, <2>2
<1>4. QED
  BY <1>3

(* The first powers of two, up to the n-th. *)
PowersUpto(h, n) ==
    /\ h \in [0 .. n -> Nat]
    /\ h[0] = 1
    /\ \A i \in 1 .. n : h[i] = 2 * h[i - 1]

LEMMA PowersUnique ==
    ASSUME NEW m \in Nat, NEW n \in Nat, NEW g, NEW h, PowersUpto(g, m), PowersUpto(h, n)
    PROVE  \A i \in Nat : i <= m /\ i <= n => g[i] = h[i]
<1> DEFINE T == {i \in Nat : i <= m /\ i <= n /\ g[i] # h[i]}
<1> SUFFICES ASSUME T # {} PROVE FALSE
  OBVIOUS
<1>1. PICK i \in T : \A j \in T : i <= j
  BY LeastNumber
<1>2. i # 0
  BY <1>1 DEF PowersUpto
<1>3. i - 1 \in Nat /\ i - 1 \notin T
  BY <1>1, <1>2
<1>4. g[i] = 2 * g[i - 1] /\ h[i] = 2 * h[i - 1] /\ g[i - 1] = h[i - 1]
  BY <1>1, <1>2, <1>3 DEF PowersUpto
<1>5. QED
  BY <1>1, <1>4

LEMMA PowersExist ==
    ASSUME NEW n \in Nat
    PROVE  \E h : PowersUpto(h, n)
<1> DEFINE T == {i \in Nat : ~ \E h : PowersUpto(h, i)}
<1> SUFFICES ASSUME T # {} PROVE FALSE
  OBVIOUS
<1>1. PICK i \in T : \A j \in T : i <= j
  BY LeastNumber
<1>2. i # 0
  <2>1. PowersUpto([j \in 0 .. 0 |-> 1], 0)
    BY DEF PowersUpto
  <2>2. QED
    BY <1>1, <2>1
<1>3. i - 1 \in Nat /\ i - 1 \notin T
  BY <1>1, <1>2
<1>4. PICK h : PowersUpto(h, i - 1)
  BY <1>3
<1>5. PowersUpto([j \in 0 .. i |-> IF j = i THEN 2 * h[i - 1] ELSE h[j]], i)
  <2> DEFINE g == [j \in 0 .. i |-> IF j = i THEN 2 * h[i - 1] ELSE h[j]]
  <2>1. i \in Nat /\ i > 0
    BY <1>2
  <2>2. h \in [0 .. i - 1 -> Nat] /\ h[0] = 1
    BY <1>4 DEF PowersUpto
  <2>3. g \in [0 .. i -> Nat]
    BY <2>1, <2>2
  <2>4. g[0] = 1
    BY <2>1, <2>2
  <2>5. ASSUME NEW j \in 1 .. i PROVE g[j] = 2 * g[j - 1]
    <3>1. CASE j = i
      BY <2>1, <3>1
    <3>2. CASE j # i
      <4>1. j \in 1 .. i - 1
        BY <2>1, <3>2
      <4>2. h[j] = 2 * h[j - 1]
        BY <1>4, <4>1 DEF PowersUpto
      <4>3. QED
        BY <2>1, <4>1, <4>2, <3>2
    <3>3. QED
      BY <3>1, <3>2
  <2> HIDE DEF g
  <2>6. QED
    BY <2>3, <2>4, <2>5 DEF PowersUpto
<1>6. QED
  BY <1>1, <1>5

(* The recursive definition of TwoTo has a solution, so TwoTo is one. *)
Doubling(f) == f = [n \in Nat |-> IF n = 0 THEN 1 ELSE 2 * f[n - 1]]

LEMMA DoublingExists == \E f : Doubling(f)
<1> DEFINE H(n) == CHOOSE h : PowersUpto(h, n)
           f == [n \in Nat |-> H(n)[n]]
<1>1. \A n \in Nat : PowersUpto(H(n), n)
  BY PowersExist
<1> HIDE DEF H
<1>2. f[0] = 1
  BY <1>1 DEF PowersUpto
<1>3. ASSUME NEW n \in Nat \ {0} PROVE f[n] = 2 * f[n - 1]
  <2>1. PowersUpto(H(n), n) /\ PowersUpto(H(n - 1), n - 1) /\ n - 1 \in Nat
    BY <1>1
  <2>2. H(n)[n - 1] = H(n - 1)[n - 1]
    BY <2>1, PowersUnique
  <2>3. H(n)[n] = 2 * H(n)[n - 1]
    BY <2>1 DEF PowersUpto
  <2>4. QED
    BY <2>1, <2>2, <2>3
<1>4. f = [n \in Nat |-> IF n = 0 THEN 1 ELSE 2 * f[n - 1]]
  <2> HIDE DEF f
  <2>1. f = [n \in Nat |-> f[n]]
    BY DEF f
  <2>2. QED
    BY <1>2, <1>3, <2>1
<1>5. QED
  BY <1>4 DEF Doubling

LEMMA TwoToDoubles ==
    /\ TwoTo[0] = 1
    /\ \A n \in Nat : TwoTo[n + 1] = 2 * TwoTo[n]
<1>1. TwoTo = CHOOSE f : Doubling(f)
  BY DEF TwoTo, Doubling
<1>2. Doubling(TwoTo)
  BY <1>1, DoublingExists
<1>3. TwoTo = [n \in Nat |-> IF n = 0 THEN 1 ELSE 2 * TwoTo[n - 1]]
  BY <1>2 DEF Doubling
<1>4. QED
  BY <1>3

(* Powers of two are positive numbers and grow with the exponent. *)
LEMMA TwoToType ==
    ASSUME NEW n \in Nat
    PROVE  TwoTo[n] \in Nat \ {0}
<1> DEFINE T == {i \in Nat : TwoTo[i] \notin Nat \ {0}}
<1> SUFFICES ASSUME T # {} PROVE FALSE
  OBVIOUS
<1>1. PICK i \in T : \A j \in T : i <= j
  BY LeastNumber
<1>2. i # 0
  BY <1>1, TwoToDoubles
<1>3. i - 1 \in Nat /\ i - 1 \notin T /\ i = (i - 1) + 1
  BY <1>1, <1>2
<1>4. TwoTo[i] = 2 * TwoTo[i - 1] /\ TwoTo[i - 1] \in Nat \ {0}
  BY <1>3, TwoToDoubles
<1>5. QED
  BY <1>1, <1>4

LEMMA TwoToGrows ==
    ASSUME NEW m \in Nat, NEW n \in Nat, m <= n
    PROVE  TwoTo[m] <= TwoTo[n]
<1> DEFINE T == {i \in Nat : m <= i /\ ~ (TwoTo[m] <= TwoTo[i])}
<1> SUFFICES ASSUME T # {} PROVE FALSE
  OBVIOUS
<1>1. PICK i \in T : \A j \in T : i <= j
  BY LeastNumber
<1>2. i # m
  BY <1>1, TwoToType
<1>3. i - 1 \in Nat /\ i - 1 \notin T /\ m <= i - 1 /\ i = (i - 1) + 1
  BY <1>1, <1>2
<1>4. TwoTo[i] = 2 * TwoTo[i - 1] /\ TwoTo[m] <= TwoTo[i - 1]
  BY <1>3, TwoToDoubles
<1>5. QED
  BY <1>1, <1>3, <1>4, TwoToType

-----------------------------------------------------------------------------
(* The highest bit                                                         *)

(* A number that fits in the word has a highest bit. *)
LEMMA HighestBit ==
    ASSUME NEW n \in Nat \ {0}, n < TwoTo[U32Bits]
    PROVE  \E bit \in 0 .. U32Bits - 1 : TwoTo[bit] <= n /\ n < TwoTo[bit + 1]
<1> DEFINE T == {i \in Nat : n < TwoTo[i]}
<1>1. U32Bits \in T
  BY PollAssumption
<1>2. PICK i \in T : \A j \in T : i <= j
  BY <1>1, LeastNumber
<1>3. i # 0
  BY <1>2, TwoToDoubles
<1>4. i - 1 \in Nat /\ i - 1 \notin T /\ i = (i - 1) + 1 /\ i <= U32Bits
  BY <1>1, <1>2, <1>3
<1>5. TwoTo[i - 1] <= n
  BY <1>4, TwoToType
<1>6. QED
  BY <1>1, <1>2, <1>4, <1>5

(* leading_zeros counts the bits above it. *)
LEMMA LeadingZerosIs ==
    ASSUME NEW n \in Nat, NEW bit \in 0 .. U32Bits - 1,
           TwoTo[bit] <= n, n < TwoTo[bit + 1]
    PROVE  LeadingZeros(n) = U32Bits - bit - 1
<1>1. U32Bits \in Nat /\ bit \in Nat /\ bit + 1 \in Nat /\ TwoTo[bit + 1] \in Nat
  BY PollAssumption, TwoToType
<1>2. ASSUME NEW i \in 0 .. U32Bits - 1
      PROVE  n < TwoTo[i] <=> i >= bit + 1
  <2>1. i \in Nat /\ TwoTo[i] \in Nat /\ TwoTo[bit] \in Nat
    BY <1>1, TwoToType
  <2>2. CASE i >= bit + 1
    BY <1>1, <2>1, <2>2, TwoToGrows
  <2>3. CASE i <= bit
    BY <1>1, <2>1, <2>3, TwoToGrows
  <2>4. QED
    BY <1>1, <2>1, <2>2, <2>3
<1>3. {i \in 0 .. U32Bits - 1 : n < TwoTo[i]} = bit + 1 .. U32Bits - 1
  BY <1>1, <1>2
<1>4. Cardinality(bit + 1 .. U32Bits - 1) = U32Bits - bit - 1
  BY <1>1, FS_Interval
<1>5. QED
  BY <1>3, <1>4 DEF LeadingZeros

(* The interval is the highest bit alone: rounded down to a power of two. *)
LEMMA IntervalRoundsDown ==
    ASSUME NEW n \in Nat \ {0}, n < TwoTo[U32Bits]
    PROVE  \E bit \in 0 .. U32Bits - 1 :
              /\ Interval(n) = TwoTo[bit]
              /\ Interval(n) <= n
              /\ n < TwoTo[bit + 1]
              /\ TwoTo[bit + 1] = 2 * Interval(n)
<1>1. PICK bit \in 0 .. U32Bits - 1 : TwoTo[bit] <= n /\ n < TwoTo[bit + 1]
  BY HighestBit
<1>2. U32Bits - LeadingZeros(n) - 1 = bit
  BY <1>1, LeadingZerosIs, PollAssumption
<1>3. Interval(n) = TwoTo[bit] /\ TwoTo[bit + 1] = 2 * TwoTo[bit]
  BY <1>2, TwoToDoubles DEF Interval
<1>4. QED
  BY <1>1, <1>3

(* It does not shrink when the exact interval grows. *)
LEMMA IntervalGrows ==
    ASSUME NEW m \in Nat \ {0}, NEW n \in Nat \ {0}, m <= n, n < TwoTo[U32Bits]
    PROVE  Interval(m) <= Interval(n)
<1>0. TwoTo[U32Bits] \in Nat
  BY TwoToType, PollAssumption
<1>1. PICK i \in 0 .. U32Bits - 1 : Interval(m) = TwoTo[i] /\ Interval(m) <= m
  BY <1>0, IntervalRoundsDown
<1>2. PICK j \in 0 .. U32Bits - 1 : Interval(n) = TwoTo[j] /\ n < TwoTo[j + 1]
  BY <1>0, IntervalRoundsDown
<1>3. i \in Nat /\ j \in Nat /\ TwoTo[i] \in Nat /\ TwoTo[j + 1] \in Nat
  BY TwoToType
<1>4. CASE i <= j
  BY <1>1, <1>2, <1>3, <1>4, TwoToGrows
<1>5. CASE i >= j + 1
  <2>1. TwoTo[j + 1] <= TwoTo[i]
    BY <1>3, <1>5, TwoToGrows
  <2>2. QED
    BY <1>1, <1>2, <1>3, <2>1
<1>6. QED
  BY <1>3, <1>4, <1>5

-----------------------------------------------------------------------------
(* The exact interval                                                      *)

Arguments == 1 .. ArgumentMax

(* The exact interval fits in the word, and is the number of whole seconds *)
(* in which the drift stays within the accuracy.                           *)
LEMMA ExactIs ==
    ASSUME NEW tolerance \in Arguments, NEW accuracy \in Arguments
    PROVE  /\ Exact(tolerance, accuracy) \in Nat
           /\ Exact(tolerance, accuracy) < TwoTo[U32Bits]
           /\ Exact(tolerance, accuracy) * tolerance <= accuracy * Scale
           /\ accuracy * Scale < (Exact(tolerance, accuracy) + 1) * tolerance
<1> DEFINE x == Exact(tolerance, accuracy)
           most == accuracy * Scale
<1>1. /\ tolerance \in Nat /\ tolerance > 0 /\ accuracy \in Nat
      /\ Scale \in Nat /\ ArgumentMax \in Nat /\ accuracy <= ArgumentMax
      /\ ArgumentMax * Scale < TwoTo[U32Bits]
  BY PollAssumption DEF Arguments
<1>2. most \in Nat /\ most <= ArgumentMax * Scale /\ ArgumentMax * Scale \in Nat
  BY <1>1
<1>3. TwoTo[U32Bits] \in Nat
  BY TwoToType, PollAssumption
<1>4. x = most \div tolerance
  BY DEF Exact
<1> HIDE DEF most
<1>5. x \in Nat /\ tolerance * x <= most /\ most < tolerance * x + tolerance
  BY <1>1, <1>2, <1>4, DivMod
<1> HIDE DEF x
<1>6. x * tolerance = tolerance * x /\ (x + 1) * tolerance = tolerance * x + tolerance
  BY <1>1, <1>5
<1>7. x <= tolerance * x /\ tolerance * x \in Nat
  BY <1>1, <1>5
<1>8. x < TwoTo[U32Bits]
  BY <1>1, <1>2, <1>3, <1>5, <1>7
<1>9. QED
  BY <1>5, <1>6, <1>8 DEF x, most

(* It grows with the accuracy asked for and shrinks with the drift. *)
LEMMA ExactFollowsDemand ==
    ASSUME NEW tolerance \in Arguments, NEW accuracy \in Arguments,
           NEW worse \in Arguments, NEW less \in Arguments,
           tolerance <= worse, accuracy <= less
    PROVE  Exact(worse, accuracy) <= Exact(tolerance, less)
<1> DEFINE x == Exact(worse, accuracy)
           y == Exact(tolerance, less)
<1>1. /\ x \in Nat /\ x * worse <= accuracy * Scale
      /\ y \in Nat /\ less * Scale < (y + 1) * tolerance
  BY ExactIs
<1>2. /\ tolerance \in Nat /\ worse \in Nat /\ accuracy \in Nat /\ less \in Nat
      /\ Scale \in Nat
  BY PollAssumption DEF Arguments
<1> HIDE DEF x, y
<1>3. accuracy * Scale <= less * Scale
  BY <1>2
<1>4. ASSUME x >= y + 1 PROVE FALSE
  <2>1. (y + 1) * tolerance <= x * tolerance /\ x * tolerance <= x * worse
    BY <1>1, <1>2, <1>4
  <2>2. /\ (y + 1) * tolerance \in Int /\ x * tolerance \in Int /\ x * worse \in Int
        /\ accuracy * Scale \in Int /\ less * Scale \in Int
    BY <1>1, <1>2
  <2>3. QED
    BY <1>1, <1>3, <2>1, <2>2
<1>5. QED
  BY <1>1, <1>4 DEF x, y

-----------------------------------------------------------------------------
(* The answer                                                              *)

(* What calculate_poll_interval answers to any two arguments: the longest  *)
(* power of two of seconds in which the drift stays within the accuracy,   *)
(* or that a second is too long, or that an argument is zero.              *)
THEOREM PollIntervalCorrect ==
    ASSUME NEW tolerance \in 0 .. ArgumentMax, NEW accuracy \in 0 .. ArgumentMax
    PROVE  LET answer == CalculatePollInterval(tolerance, accuracy)
           IN  \/ /\ answer.tag = "Ok"
                  /\ \E bit \in 0 .. U32Bits - 1 : answer.seconds = TwoTo[bit]
                  /\ answer.seconds \in Nat
                  /\ answer.seconds * tolerance <= accuracy * Scale
                  /\ (2 * answer.seconds) * tolerance > accuracy * Scale
               \/ /\ answer.tag = "ZeroPollInterval"
                  /\ tolerance > accuracy * Scale
               \/ /\ answer.tag = "BadParameter"
                  /\ 0 \in {tolerance, accuracy}
<1> DEFINE answer == CalculatePollInterval(tolerance, accuracy)
           x == Exact(tolerance, accuracy)
           most == accuracy * Scale
<1>1. CASE tolerance = 0 \/ accuracy = 0
  BY <1>1 DEF CalculatePollInterval
<1>2. CASE tolerance # 0 /\ accuracy # 0
  <2>1. tolerance \in Arguments /\ accuracy \in Arguments
    BY <1>2, PollAssumption DEF Arguments
  <2>2. /\ x \in Nat /\ x < TwoTo[U32Bits]
        /\ x * tolerance <= most /\ most < (x + 1) * tolerance
    BY <2>1, ExactIs
  <2>3. tolerance \in Nat /\ most \in Nat
    BY PollAssumption
  <2>4. CASE x = 0
    <3>1. answer.tag = "ZeroPollInterval"
      BY <1>2, <2>4 DEF CalculatePollInterval
    <3> HIDE DEF x, most, answer
    <3>2. tolerance > most
      BY <2>2, <2>3, <2>4
    <3>3. QED
      BY <3>1, <3>2 DEF answer, most
  <2>5. CASE x # 0
    <3>1. answer = [tag |-> "Ok", seconds |-> Interval(x)]
      BY <1>2, <2>5 DEF CalculatePollInterval
    <3> HIDE DEF x, most, answer
    <3>2. PICK bit \in 0 .. U32Bits - 1 :
             /\ Interval(x) = TwoTo[bit]
             /\ Interval(x) <= x
             /\ x < TwoTo[bit + 1]
             /\ TwoTo[bit + 1] = 2 * Interval(x)
      BY <2>2, <2>5, IntervalRoundsDown
    <3> DEFINE seconds == Interval(x)
    <3>3. seconds \in Nat /\ seconds <= x /\ x + 1 <= 2 * seconds
      <4>1. TwoTo[bit] \in Nat
        BY TwoToType
      <4>2. QED
        BY <2>2, <3>2, <4>1
    <3> HIDE DEF seconds
    <3>4. seconds * tolerance <= x * tolerance
      BY <2>2, <2>3, <3>3
    <3>5. (x + 1) * tolerance <= (2 * seconds) * tolerance
      BY <2>2, <2>3, <3>3
    <3>6. /\ seconds * tolerance \in Int /\ x * tolerance \in Int
          /\ (x + 1) * tolerance \in Int /\ (2 * seconds) * tolerance \in Int
      BY <2>2, <2>3, <3>3
    <3>7. seconds * tolerance <= most /\ (2 * seconds) * tolerance > most
      BY <2>2, <2>3, <3>4, <3>5, <3>6
    <3>8. answer.tag = "Ok" /\ answer.seconds = seconds
      BY <3>1 DEF seconds
    <3>9. answer.seconds = TwoTo[bit]
      BY <3>2, <3>8 DEF seconds
    <3>10. QED
      BY <3>3, <3>7, <3>8, <3>9 DEF answer, most
  <2>6. QED
    BY <2>4, <2>5
<1>3. QED
  BY <1>1, <1>2

(* The interval of a demand that is no greater, on a clock that is no      *)
(* better, is no longer.                                                   *)
LEMMA SecondsFollowDemand ==
    ASSUME NEW tolerance \in Arguments, NEW accuracy \in Arguments,
           NEW worse \in Arguments, NEW less \in Arguments,
           tolerance <= worse, accuracy <= less
    PROVE  SecondsOf(CalculatePollInterval(worse, accuracy))
             <= SecondsOf(CalculatePollInterval(tolerance, less))
<1> DEFINE x == Exact(worse, accuracy)
           y == Exact(tolerance, less)
<1>1. x \in Nat /\ y \in Nat /\ x <= y /\ y < TwoTo[U32Bits] /\ TwoTo[U32Bits] \in Nat
  BY ExactIs, ExactFollowsDemand, TwoToType, PollAssumption
<1>2. tolerance # 0 /\ accuracy # 0 /\ worse # 0 /\ less # 0
  BY PollAssumption DEF Arguments
<1>3. /\ SecondsOf(CalculatePollInterval(worse, accuracy)) = IF x = 0 THEN 0 ELSE Interval(x)
      /\ SecondsOf(CalculatePollInterval(tolerance, less)) = IF y = 0 THEN 0 ELSE Interval(y)
  BY <1>2 DEF CalculatePollInterval, SecondsOf
<1> HIDE DEF x, y
<1>4. y # 0 => Interval(y) \in Nat
  <2> SUFFICES ASSUME y # 0 PROVE Interval(y) \in Nat
    OBVIOUS
  <2>1. PICK bit \in 0 .. U32Bits - 1 : Interval(y) = TwoTo[bit]
    BY <1>1, IntervalRoundsDown
  <2>2. QED
    BY <2>1, TwoToType
<1>5. CASE x = 0
  BY <1>3, <1>4, <1>5
<1>6. CASE x # 0
  BY <1>1, <1>3, <1>6, IntervalGrows
<1>7. QED
  BY <1>5, <1>6

-----------------------------------------------------------------------------
(* The application                                                         *)

(* Both arguments are u16. *)
PollTypeOK ==
    /\ clockFreqTolerance \in 0 .. ArgumentMax
    /\ desiredAccuracy \in 0 .. ArgumentMax

LEMMA PollType == Spec => []PollTypeOK
<1>1. Init => PollTypeOK
  BY PollAssumption DEF Init, PollTypeOK
<1>2. PollTypeOK /\ [Next]_vars => PollTypeOK'
  <2> SUFFICES ASSUME PollTypeOK, [Next]_vars PROVE PollTypeOK'
    OBVIOUS
  <2>1. CASE WorseClock
    BY <2>1, PollAssumption DEF WorseClock, PollTypeOK
  <2>2. CASE LessAccuracy
    BY <2>2, PollAssumption DEF LessAccuracy, PollTypeOK
  <2>3. CASE UNCHANGED vars
    BY <2>3 DEF vars, PollTypeOK
  <2>4. QED
    BY <2>1, <2>2, <2>3 DEF Next
<1>3. QED
  BY <1>1, <1>2, PTL DEF Spec

(* For every pair of arguments, polling at the interval keeps the clock as *)
(* accurate as was asked for, and no longer power of two would; where      *)
(* there is no interval, a second is too long already.                     *)
THEOREM IntervalIsLongestSafe == Spec => []LongestSafeInterval
<1>1. PollTypeOK => LongestSafeInterval
  <2> SUFFICES ASSUME PollTypeOK PROVE LongestSafeInterval
    OBVIOUS
  <2>1. clockFreqTolerance \in 0 .. ArgumentMax /\ desiredAccuracy \in 0 .. ArgumentMax
    BY DEF PollTypeOK
  <2>2. \/ /\ Answer.tag = "Ok"
           /\ \E bit \in 0 .. U32Bits - 1 : Answer.seconds = TwoTo[bit]
           /\ Answer.seconds * clockFreqTolerance <= desiredAccuracy * Scale
           /\ (2 * Answer.seconds) * clockFreqTolerance > desiredAccuracy * Scale
        \/ /\ Answer.tag = "ZeroPollInterval"
           /\ clockFreqTolerance > desiredAccuracy * Scale
        \/ /\ Answer.tag = "BadParameter"
           /\ 0 \in {clockFreqTolerance, desiredAccuracy}
    BY <2>1, PollIntervalCorrect DEF Answer
  <2>3. Drift(1) = clockFreqTolerance
    BY <2>1 DEF Drift
  <2>4. QED
    BY <2>2, <2>3 DEF LongestSafeInterval, Drift
<1>2. QED
  BY <1>1, PollType, PTL

(* No rounding step turns the order round: a worse clock is never polled   *)
(* less often, a smaller demand never more often.                          *)
THEOREM IntervalIsMonotone == Spec => IntervalFollowsDemand
<1> DEFINE Follows ==
        0 \notin {clockFreqTolerance, desiredAccuracy} =>
          IF desiredAccuracy' = desiredAccuracy
          THEN SecondsOf(Answer') <= SecondsOf(Answer)
          ELSE SecondsOf(Answer') >= SecondsOf(Answer)
<1>1. PollTypeOK /\ [Next]_vars => [Follows]_vars
  <2> SUFFICES ASSUME PollTypeOK, Next, 0 \notin {clockFreqTolerance, desiredAccuracy}
               PROVE  IF desiredAccuracy' = desiredAccuracy
                      THEN SecondsOf(Answer') <= SecondsOf(Answer)
                      ELSE SecondsOf(Answer') >= SecondsOf(Answer)
    OBVIOUS
  <2>1. clockFreqTolerance \in Arguments /\ desiredAccuracy \in Arguments
    BY PollAssumption DEF PollTypeOK, Arguments
  <2>2. CASE WorseClock
    <3>1. /\ clockFreqTolerance' \in Arguments
          /\ clockFreqTolerance <= clockFreqTolerance'
          /\ desiredAccuracy' = desiredAccuracy
      BY <2>1, <2>2, PollAssumption DEF WorseClock, Arguments
    <3>2. SecondsOf(CalculatePollInterval(clockFreqTolerance', desiredAccuracy))
            <= SecondsOf(CalculatePollInterval(clockFreqTolerance, desiredAccuracy))
      BY <2>1, <3>1, SecondsFollowDemand DEF Arguments
    <3>3. QED
      BY <3>1, <3>2 DEF Answer
  <2>3. CASE LessAccuracy
    <3>1. /\ desiredAccuracy' \in Arguments
          /\ desiredAccuracy <= desiredAccuracy' /\ desiredAccuracy' # desiredAccuracy
          /\ clockFreqTolerance' = clockFreqTolerance
      BY <2>1, <2>3, PollAssumption DEF LessAccuracy, Arguments
    <3>2. SecondsOf(CalculatePollInterval(clockFreqTolerance, desiredAccuracy))
            <= SecondsOf(CalculatePollInterval(clockFreqTolerance, desiredAccuracy'))
      BY <2>1, <3>1, SecondsFollowDemand DEF Arguments
    <3>3. QED
      BY <3>1, <3>2 DEF Answer
  <2>4. QED
    BY <2>2, <2>3 DEF Next
<1>2. QED
  BY <1>1, PollType, PTL DEF Spec, IntervalFollowsDemand
=============================================================================
