--------------------------- MODULE DivisionLemmas ---------------------------
(* Facts about integer division that the proofs about timestamps share.    *)
EXTENDS Integers, TLAPS

(* Division and remainder by a positive number. *)
LEMMA DivMod ==
    ASSUME NEW n \in Nat, NEW d \in Nat, d > 0
    PROVE  /\ n \div d \in Nat
           /\ d * (n \div d) <= n
           /\ n < d * (n \div d) + d
           /\ n % d \in 0 .. d - 1
           /\ n % d = n - d * (n \div d)
<1>1. n \div d \in Nat /\ d * (n \div d) <= n
  OBVIOUS
<1>2. n % d \in 0 .. d - 1
  OBVIOUS
<1>3. n % d = n - d * (n \div d)
  OBVIOUS
<1>4. n < d * (n \div d) + d
  OBVIOUS
<1>5. QED
  BY <1>1, <1>2, <1>3, <1>4

(* What is less than `parts` times the divisor has a quotient less than    *)
(* `parts`: a fraction never rounds up into the next second, as long as    *)
(* the divisor is not too small.                                           *)
LEMMA QuotientBelow ==
    ASSUME NEW n \in Nat, NEW d \in Nat, d > 0, NEW parts \in Nat, n < d * parts
    PROVE  n \div d \in 0 .. parts - 1
<1> DEFINE q == n \div d
<1>1. q \in Nat /\ d * q <= n
  BY DivMod
<1> HIDE DEF q
<1>2. ASSUME q >= parts PROVE FALSE
  <2>1. d * q >= d * parts
    BY <1>1, <1>2
  <2>2. d * parts \in Nat /\ d * q \in Nat
    BY <1>1
  <2>3. QED
    BY <1>1, <2>1, <2>2
<1>3. q \in 0 .. parts - 1
  BY <1>1, <1>2
<1>4. QED
  BY <1>3 DEF q

(* Quotients do not decrease. *)
LEMMA QuotientMonotone ==
    ASSUME NEW m \in Nat, NEW n \in Nat, m <= n, NEW d \in Nat, d > 0
    PROVE  m \div d <= n \div d
<1> DEFINE q == m \div d
           r == n \div d
<1>1. q \in Nat /\ r \in Nat /\ d * q <= m /\ n < d * r + d
  BY DivMod
<1> HIDE DEF q, r
<1>2. ASSUME q >= r + 1 PROVE FALSE
  <2>1. d * q >= d * (r + 1)
    BY <1>1, <1>2
  <2>2. d * (r + 1) = d * r + d
    BY <1>1
  <2>3. QED
    BY <1>1, <2>1, <2>2
<1>3. QED
  BY <1>1, <1>2 DEF q, r

(* The remainder is the number below the divisor that is left of whole     *)
(* multiples of it.                                                        *)
LEMMA RemainderIs ==
    ASSUME NEW d \in Nat, d > 0, NEW r \in 0 .. d - 1, NEW k \in Int,
           NEW n \in Int, n = r + d * k
    PROVE  n % d = r
OBVIOUS
=============================================================================
