----------------------------- MODULE ModuloLemmas -----------------------------
(***************************************************************************)
(* Facts about % and \div that the proofs about wrapping counters need.    *)
(***************************************************************************)
EXTENDS Integers, TLAPS

\* Euclidean division: the quotient and the remainder add up to the dividend.
LEMMA DivMod ==
  ASSUME NEW M \in Nat \ {0}, NEW x \in Int
  PROVE  /\ x % M \in 0 .. M - 1
         /\ x \div M \in Int
         /\ x = M * (x \div M) + (x % M)
  BY SMT

\* The remainder is determined by any decomposition of the dividend.
LEMMA ModUnique ==
  ASSUME NEW M \in Nat \ {0}, NEW q \in Int, NEW r \in 0 .. M-1
  PROVE  (M * q + r) % M = r
  BY SMT

\* Adding a multiple of the modulus leaves the remainder alone.
LEMMA ModShift ==
  ASSUME NEW M \in Nat \ {0}, NEW y \in Int, NEW k \in Int
  PROVE  (y + M * k) % M = y % M
<1> DEFINE q == y \div M
           r == y % M
<1>1. q \in Int /\ r \in 0 .. M - 1 /\ y = M * q + r
  BY DivMod
<1>2. y + M * k = M * (q + k) + r
  BY <1>1
<1>3. (M * (q + k) + r) % M = r
  <2> HIDE DEF q, r
  <2> QED BY <1>1, ModUnique
<1> QED BY <1>2, <1>3

\* A uint8_t difference of two counters is their true difference when that is
\* below the modulus: why crf-receiver.c may compute a gap from 8-bit sequence
\* numbers as long as fewer than 256 PDUs are missing.
LEMMA ModGap ==
  ASSUME NEW M \in Nat \ {0}, NEW a \in Int, NEW b \in 0 .. M-1
  PROVE  (((a+b) % M) - (a % M)) % M = b
<1> DEFINE q1 == (a + b) \div M
           q2 == a \div M
           x == (a+b) % M
           y == a % M
<1>1. q1 \in Int /\ q2 \in Int /\ x \in Int /\ y \in Int
      /\ a + b = M * q1 + x /\ a = M * q2 + y
  BY DivMod
<1> HIDE DEF q1, q2, x, y
<1>2. x - y = b + M * (q2 - q1)
  BY <1>1
<1>3. (b + M * (q2 - q1)) % M = b % M
  <2>1. q2 - q1 \in Int /\ b \in Int
    BY <1>1
  <2> QED BY <2>1, ModShift
<1>4. b % M = b
  BY ModUnique, b = M * 0 + b
<1>5. (x - y) % M = b
  BY <1>2, <1>3, <1>4
<1> QED BY <1>5 DEF x, y

\* Adding the modular difference to a counter, and one for the element itself,
\* leads to the same residue as starting over behind the new element, even when
\* the true difference is beyond the modulus.
LEMMA ModStep ==
  ASSUME NEW M \in Nat \ {0}, NEW a \in Int, NEW s \in 0 .. M-1
  PROVE  (s+1) % M = (a + ((s - (a % M)) % M) + 1) % M
<1> DEFINE y == a % M
           q == a \div M
           g == (s - y) % M
           p == (s - y) \div M
<1>1. q \in Int /\ y \in Int /\ a = M * q + y
  BY DivMod
<1>2. g \in Int /\ p \in Int /\ s - y = M * p + g
  BY <1>1, DivMod
<1> HIDE DEF y, q, g, p
<1>3. a + g + 1 = (s + 1) + M * (q - p)
  BY <1>1, <1>2
<1>4. ((s + 1) + M * (q - p)) % M = (s + 1) % M
  <2>1. q - p \in Int /\ s + 1 \in Int
    BY <1>1, <1>2
  <2> QED BY <2>1, ModShift
<1>5. (s + 1) % M = (a + g + 1) % M
  BY <1>3, <1>4
<1> QED BY <1>5 DEF y, g
=============================================================================
