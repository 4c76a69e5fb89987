---------------------------- MODULE MclkPath_proofs ----------------------------
(***************************************************************************)
(* Theorems about the recovered media clock, for every value of the        *)
(* constants and every choice of faults.                                   *)
(***************************************************************************)
EXTENDS MclkPath, SequenceTheorems, WellFoundedInduction, ModuloLemmas

\* What the named assumptions say, in one place.
LEMMA Constants ==
  /\ PerCrf \in Nat /\ PerCrf > 0
  /\ Wrap \in Nat /\ Wrap > 1
  /\ AafTransit \in Nat
  /\ Start \in Nat /\ Start > 0
  /\ CrfTransit \in Nat
  /\ MaxLate \in Nat
  /\ MaxFaults \in Nat
  /\ Delay \in Nat
  BY MediaClockAssumption, MclkTalkerAssumption, MclkPathAssumption

\* A set of natural numbers has a least one.
LEMMA LeastElement ==
  ASSUME NEW S, S \subseteq Nat, S # {}
  PROVE  \E x \in S : \A y \in S : x <= y
<1>1. PICK x \in S : \A y \in S : ~(<<y, x>> \in OpToRel(<, Nat))
  BY NatLessThanWellFounded, WFMin
<1>2. \A y \in S : y < x => <<y, x>> \in OpToRel(<, Nat)
  BY Zenon DEF OpToRel
<1>3. \A y \in S : ~(y < x)
  BY <1>1, <1>2, Zenon
<1>4. \A y \in S : y \in Nat /\ x \in Nat
  BY <1>1
<1>5. \A y \in S : x <= y
  BY <1>3, <1>4
<1> QED BY <1>5

-----------------------------------------------------------------------------
\* Sequences.

\* RemoveAt leaves the other elements, in their order.
LEMMA RemoveAtProperties ==
  ASSUME NEW S, NEW s \in Seq(S), NEW k \in 1 .. Len(s)
  PROVE  /\ RemoveAt(s, k) \in Seq(S)
         /\ Len(RemoveAt(s, k)) = Len(s) - 1
         /\ \A i \in 1 .. Len(s) - 1 :
              RemoveAt(s, k)[i] = IF i < k THEN s[i] ELSE s[i + 1]
<1> DEFINE front == SubSeq(s, 1, k - 1)
           back == SubSeq(s, k + 1, Len(s))
<1>1. Len(s) \in Nat /\ \A i \in 1 .. Len(s) : s[i] \in S
  BY LenProperties, ElementOfSeq
<1>2. /\ front \in Seq(S)
      /\ Len(front) = k - 1
      /\ \A i \in 1 .. k - 1 : front[i] = s[i]
  <2>1. \A i \in 1 .. k - 1 : s[i] \in S
    BY <1>1
  <2>2. k - 1 \in Int /\ 1 \in Int
    BY <1>1
  <2>3. /\ front \in Seq(S)
        /\ Len(front) = IF 1 <= k - 1 THEN (k - 1) - 1 + 1 ELSE 0
        /\ \A i \in 1 .. (k - 1) - 1 + 1 : front[i] = s[1 + i - 1]
    BY <2>1, <2>2, SubSeqProperties
  <2> HIDE DEF front
  <2> QED BY <1>1, <2>3
<1>3. /\ back \in Seq(S)
      /\ Len(back) = Len(s) - k
      /\ \A i \in 1 .. Len(s) - k : back[i] = s[k + i]
  <2>1. \A i \in k + 1 .. Len(s) : s[i] \in S
    BY <1>1
  <2>2. k + 1 \in Int /\ Len(s) \in Int
    BY <1>1
  <2>3. /\ back \in Seq(S)
        /\ Len(back) = IF k + 1 <= Len(s) THEN Len(s) - (k + 1) + 1 ELSE 0
        /\ \A i \in 1 .. Len(s) - (k + 1) + 1 : back[i] = s[k + 1 + i - 1]
    BY <2>1, <2>2, SubSeqProperties
  <2> HIDE DEF back
  <2> QED BY <1>1, <2>3
<1> HIDE DEF front, back
<1>4. /\ front \o back \in Seq(S)
      /\ Len(front \o back) = Len(front) + Len(back)
      /\ \A i \in 1 .. Len(front) + Len(back) :
           (front \o back)[i] = IF i <= Len(front) THEN front[i] ELSE back[i - Len(front)]
  BY <1>2, <1>3, ConcatProperties
<1>5. RemoveAt(s, k) = front \o back
  BY DEF RemoveAt, front, back
<1>6. Len(front) + Len(back) = Len(s) - 1
  BY <1>1, <1>2, <1>3
<1>7. ASSUME NEW i \in 1 .. Len(s) - 1
      PROVE  (front \o back)[i] = IF i < k THEN s[i] ELSE s[i + 1]
  <2>1. (front \o back)[i] = IF i < k THEN front[i] ELSE back[i - (k - 1)]
    BY <1>1, <1>2, <1>4, <1>6
  <2>2. CASE i < k
    BY <1>1, <1>2, <2>1, <2>2
  <2>3. CASE ~(i < k)
    <3>1. i - (k - 1) \in 1 .. Len(s) - k /\ k + (i - (k - 1)) = i + 1
      BY <1>1, <2>3
    <3>2. back[i - (k - 1)] = s[k + (i - (k - 1))]
      BY <1>3, <3>1
    <3> QED BY <2>1, <2>3, <3>1, <3>2
  <2> QED BY <2>2, <2>3
<1> QED BY <1>4, <1>5, <1>6, <1>7

-----------------------------------------------------------------------------
\* The list of a media clock.

\* The timestamps of one PDU, less those before `first'.
LEMMA FromProperties ==
  ASSUME NEW first \in Nat, NEW ts \in Nat, ts <= first
  PROVE  /\ From(first, ts) \in Seq(Nat)
         /\ Len(From(first, ts)) = IF first < ts + PerCrf THEN ts + PerCrf - first ELSE 0
         /\ \A i \in 1 .. Len(From(first, ts)) : From(first, ts)[i] = first + i - 1
<1> DEFINE n == ts + PerCrf - first
<1>1. CASE first < ts + PerCrf
  <2>1. n \in Nat
    BY <1>1, Constants
  <2>2. \A i \in 1 .. n : first + i - 1 \in Nat
    OBVIOUS
  <2> HIDE DEF n
  <2>3. [i \in 1 .. n |-> first + i - 1] \in [1 .. n -> Nat]
    BY <2>2
  <2>4. From(first, ts) = [i \in 1 .. n |-> first + i - 1]
    BY DEF From, n
  <2>5. Len([i \in 1 .. n |-> first + i - 1]) = n
    BY <2>1
  <2>6. [i \in 1 .. n |-> first + i - 1] \in Seq(Nat)
    BY <2>1, <2>3, SeqDef
  <2> QED BY <1>1, <2>4, <2>5, <2>6 DEF n
<1>2. CASE ~(first < ts + PerCrf)
  <2>1. 1 .. n = {}
    BY <1>2, Constants
  <2> HIDE DEF n
  <2>2. From(first, ts) = [i \in 1 .. n |-> first + i - 1]
    BY DEF From, n
  <2>3. From(first, ts) = <<>>
    BY <2>1, <2>2
  <2> QED BY <1>2, <2>3, EmptySeq
<1> QED BY <1>1, <1>2

\* The list of a clock increases, from the last timestamp used of it on.
Increases(c) ==
  \A i \in 1 .. Len(c.list) : c.list[i] > IF i = 1 THEN c.prev ELSE c.list[i - 1]

\* All of a clock's list lies before a limit.
Below(c, limit) == \A i \in 1 .. Len(c.list) : c.list[i] < limit

LEMMA ClockFields ==
  ASSUME NEW c \in Clock
  PROVE  /\ c.list \in Seq(Nat)
         /\ Len(c.list) \in Nat
         /\ \A i \in 1 .. Len(c.list) : c.list[i] \in Nat
         /\ c.prev \in Nat
         /\ c.need_lookup \in BOOLEAN
<1>1. c.list \in Seq(Nat) /\ c.prev \in Nat /\ c.need_lookup \in BOOLEAN
  BY DEF Clock
<1> QED BY <1>1, LenProperties, ElementOfSeq

\* recover_mclk() appends in order what lies ahead of all it has: the list goes
\* on increasing, and ends before the next PDU's first timestamp.
LEMMA RecoveredProperties ==
  ASSUME NEW c \in Clock, NEW ts_crf \in Nat, NEW mtt \in Nat,
         Increases(c), Below(c, ts_crf + mtt)
  PROVE  /\ Recovered(c, ts_crf, mtt) \in Clock
         /\ Increases(Recovered(c, ts_crf, mtt))
         /\ Below(Recovered(c, ts_crf, mtt), ts_crf + mtt + PerCrf)
         /\ Recovered(c, ts_crf, mtt).prev = c.prev
         /\ Recovered(c, ts_crf, mtt).need_lookup = c.need_lookup
         /\ Len(Recovered(c, ts_crf, mtt).list) >= Len(c.list)
         /\ \A i \in 1 .. Len(c.list) : Recovered(c, ts_crf, mtt).list[i] = c.list[i]
         /\ c.prev < ts_crf + mtt =>
              Len(Recovered(c, ts_crf, mtt).list) = Len(c.list) + PerCrf
         /\ c.prev < ts_crf + mtt =>
              \A i \in 1 .. PerCrf :
                Recovered(c, ts_crf, mtt).list[Len(c.list) + i] = ts_crf + mtt + i - 1
         /\ c.prev >= ts_crf + mtt =>
              \A i \in Len(c.list) + 1 .. Len(Recovered(c, ts_crf, mtt).list) :
                Recovered(c, ts_crf, mtt).list[i] = c.prev + i - Len(c.list)
<1> DEFINE ts == ts_crf + mtt
           first == IF ts > c.prev THEN ts ELSE c.prev + 1
           more == From(first, ts)
           r == Recovered(c, ts_crf, mtt)
           L == Len(c.list)
<1>1. /\ c.list \in Seq(Nat)
      /\ L \in Nat
      /\ \A i \in 1 .. L : c.list[i] \in Nat
      /\ c.prev \in Nat
  BY ClockFields
<1>2. ts \in Nat /\ first \in Nat /\ ts <= first /\ c.prev < first
  BY <1>1
<1>3. /\ more \in Seq(Nat)
      /\ Len(more) = IF first < ts + PerCrf THEN ts + PerCrf - first ELSE 0
      /\ \A i \in 1 .. Len(more) : more[i] = first + i - 1
  <2> HIDE DEF first, ts
  <2> QED BY <1>2, FromProperties
<1>4. r = [c EXCEPT !.list = c.list \o more]
  BY DEF Recovered
<1>5. /\ r.list = c.list \o more /\ r.prev = c.prev /\ r.need_lookup = c.need_lookup
  <2> HIDE DEF r, more
  <2> QED BY <1>4 DEF Clock
<1>6. /\ r.list \in Seq(Nat)
      /\ Len(r.list) = L + Len(more)
      /\ \A i \in 1 .. L + Len(more) :
           r.list[i] = IF i <= L THEN c.list[i] ELSE more[i - L]
  <2> HIDE DEF r, more
  <2>1. /\ c.list \o more \in Seq(Nat)
        /\ Len(c.list \o more) = L + Len(more)
        /\ \A i \in 1 .. L + Len(more) :
             (c.list \o more)[i] = IF i <= L THEN c.list[i] ELSE more[i - L]
    BY <1>1, <1>3, ConcatProperties
  <2> QED BY <1>5, <2>1
<1>7. r \in Clock
  <2> HIDE DEF r, more
  <2> QED BY <1>4, <1>5, <1>6 DEF Clock
<1>8. Len(more) \in Nat
  <2> HIDE DEF more
  <2> QED BY <1>3, LenProperties
<1>9. ASSUME NEW i \in 1 .. Len(more)
      PROVE  r.list[L + i] = first + i - 1
  <2> HIDE DEF r, more, first, L
  <2>1. L + i \in 1 .. L + Len(more) /\ ~(L + i <= L) /\ (L + i) - L = i
    BY <1>1, <1>8
  <2>2. r.list[L + i] = more[(L + i) - L]
    BY <1>6, <2>1
  <2> QED BY <1>3, <2>1, <2>2
<1>10. ASSUME NEW i \in 1 .. L
       PROVE  r.list[i] = c.list[i]
  <2> HIDE DEF r, more, first, L
  <2>1. i \in 1 .. L + Len(more) /\ i <= L
    BY <1>1, <1>8
  <2> QED BY <1>6, <2>1
<1>11. \A i \in 1 .. L : c.list[i] < ts
  BY DEF Below
\* A timestamp at or after the last one used: the list must have been empty.
<1>12. ts <= c.prev => L = 0
  <2>1. L > 0 => c.list[1] > c.prev
    BY <1>1 DEF Increases
  <2> HIDE DEF L, ts
  <2> QED BY <1>1, <1>2, <1>11, <2>1
<1>13. \A i \in 1 .. Len(r.list) : r.list[i] < ts + PerCrf
  <2> SUFFICES ASSUME NEW i \in 1 .. Len(r.list)
               PROVE  r.list[i] < ts + PerCrf
    OBVIOUS
  <2> HIDE DEF r, more, first, L, ts
  <2>1. CASE i <= L
    <3> DEFINE x == c.list[i]
    <3>1. i \in 1 .. L
      BY <1>1, <2>1
    <3>2. r.list[i] = x /\ x \in Nat /\ x < ts
      BY <1>1, <1>10, <1>11, <3>1
    <3> HIDE DEF x
    <3>3. ts \in Nat /\ PerCrf \in Nat
      BY <1>2, Constants
    <3> QED BY <3>2, <3>3
  <2>2. CASE i > L
    <3>1. i - L \in 1 .. Len(more) /\ r.list[L + (i - L)] = first + (i - L) - 1
      BY <1>1, <1>6, <1>8, <1>9, <2>2
    <3>2. L + (i - L) = i
      BY <1>1
    <3> QED BY <1>1, <1>2, <1>3, <3>1, <3>2, Constants
  <2> QED BY <1>1, <2>1, <2>2
<1>14. Increases(r)
  <2> SUFFICES ASSUME NEW i \in 1 .. Len(r.list)
               PROVE  r.list[i] > IF i = 1 THEN r.prev ELSE r.list[i - 1]
    BY DEF Increases
  <2>0. \A j \in 1 .. L : c.list[j] > IF j = 1 THEN c.prev ELSE c.list[j - 1]
    BY DEF Increases
  <2> HIDE DEF r, more, first, L, ts
  <2>1. CASE i <= L
    <3>1. i \in 1 .. L /\ (i # 1 => i - 1 \in 1 .. L)
      BY <1>1, <2>1
    <3>2. r.list[i] = c.list[i] /\ (i # 1 => r.list[i - 1] = c.list[i - 1])
      BY <1>10, <3>1
    <3>3. c.list[i] > IF i = 1 THEN c.prev ELSE c.list[i - 1]
      BY <2>0, <3>1
    <3> QED BY <1>5, <3>2, <3>3
  <2>2. CASE i > L
    <3>1. i - L \in 1 .. Len(more)
      BY <1>1, <1>6, <1>8, <2>2
    <3>2. r.list[i] = first + (i - L) - 1
      <4>1. L + (i - L) = i
        BY <1>1
      <4> QED BY <1>9, <3>1, <4>1
    <3>3. CASE i = 1
      <4>1. L = 0
        BY <1>1, <2>2, <3>3
      <4> QED BY <1>1, <1>2, <1>5, <3>2, <3>3, <4>1
    <3>4. CASE i > 1 /\ i = L + 1
      <4>1. r.list[i - 1] = c.list[L] /\ L \in 1 .. L
        BY <1>1, <1>10, <3>4
      <4>2. c.list[L] < ts
        BY <1>11, <4>1
      <4> QED BY <1>1, <1>2, <3>2, <3>4, <4>1, <4>2
    <3>5. CASE i > L + 1
      <4>1. i - 1 - L \in 1 .. Len(more) /\ L + (i - 1 - L) = i - 1
        BY <1>1, <1>8, <3>1, <3>5
      <4>2. r.list[i - 1] = first + (i - 1 - L) - 1
        BY <1>9, <4>1
      <4> QED BY <1>1, <1>2, <3>2, <3>5, <4>2
    <3> QED BY <1>1, <2>2, <3>3, <3>4, <3>5
  <2> QED BY <1>1, <2>1, <2>2
<1>15. c.prev < ts => first = ts /\ Len(more) = PerCrf
  BY <1>1, <1>2, <1>3, Constants
<1>16. c.prev >= ts => first = c.prev + 1 /\ L = 0
  BY <1>1, <1>2, <1>12
<1>17. c.prev >= ts => \A i \in L + 1 .. Len(r.list) : r.list[i] = c.prev + i - L
  <2> SUFFICES ASSUME c.prev >= ts, NEW i \in L + 1 .. Len(r.list)
               PROVE  r.list[i] = c.prev + i - L
    OBVIOUS
  <2>1. first = c.prev + 1
    BY <1>16
  <2> HIDE DEF r, more, first, L, ts
  <2>2. i - L \in 1 .. Len(more) /\ L + (i - L) = i
    BY <1>1, <1>6, <1>8
  <2>3. r.list[i] = first + (i - L) - 1
    BY <1>9, <2>2
  <2> QED BY <1>1, <2>1, <2>2, <2>3
<1>18. Below(r, ts + PerCrf)
  BY <1>13 DEF Below
<1>19. Len(r.list) >= L
  <2> HIDE DEF r, more, L
  <2> QED BY <1>1, <1>6, <1>8
<1>20. c.prev < ts => /\ Len(r.list) = L + PerCrf
                      /\ \A i \in 1 .. PerCrf : r.list[L + i] = ts + i - 1
  <2> HIDE DEF r, more, first, L, ts
  <2> QED BY <1>6, <1>9, <1>15
<1> HIDE DEF more, first
<1> QED BY <1>5, <1>7, <1>10, <1>14, <1>17, <1>18, <1>19, <1>20

\* What a clock counts on from when its list has run dry.
Base(c) == IF Len(c.list) = 0 THEN c.prev ELSE Last(c.list)

LEMMA NthProperties ==
  ASSUME NEW c \in Clock
  PROVE  /\ Base(c) \in Nat
         /\ \A n \in Nat \ {0} :
              /\ NthTimestamp(c, n) \in Nat
              /\ n <= Len(c.list) => NthTimestamp(c, n) = c.list[n]
              /\ n > Len(c.list) => NthTimestamp(c, n) = Base(c) + (n - Len(c.list))
<1>1. /\ Len(c.list) \in Nat
      /\ \A i \in 1 .. Len(c.list) : c.list[i] \in Nat
      /\ c.prev \in Nat
  BY ClockFields
<1>2. Base(c) \in Nat
  BY <1>1 DEF Base, Last
<1>3. ASSUME NEW n \in Nat \ {0}
      PROVE  NthTimestamp(c, n) = IF n <= Len(c.list) THEN c.list[n]
                                  ELSE Base(c) + (n - Len(c.list))
  BY DEF NthTimestamp, Base
<1>4. ASSUME NEW n \in Nat \ {0}
      PROVE  /\ NthTimestamp(c, n) \in Nat
             /\ n <= Len(c.list) => NthTimestamp(c, n) = c.list[n]
             /\ n > Len(c.list) => NthTimestamp(c, n) = Base(c) + (n - Len(c.list))
  <2>1. CASE n <= Len(c.list)
    BY <1>1, <1>3, <2>1
  <2>2. CASE n > Len(c.list)
    BY <1>1, <1>2, <1>3, <2>2
  <2> QED BY <1>1, <2>1, <2>2
<1> QED BY <1>2, <1>4

\* The next timestamp of a clock is after the last one.
LEMMA NthIncreases ==
  ASSUME NEW c \in Clock, Increases(c)
  PROVE  /\ NthTimestamp(c, 1) > c.prev
         /\ \A n \in Nat \ {0} : NthTimestamp(c, n + 1) > NthTimestamp(c, n)
<1> DEFINE L == Len(c.list)
<1>1. /\ L \in Nat
      /\ \A i \in 1 .. L : c.list[i] \in Nat
      /\ c.prev \in Nat
  BY ClockFields
<1>2. \A i \in 1 .. L : c.list[i] > IF i = 1 THEN c.prev ELSE c.list[i - 1]
  BY DEF Increases
<1>3. Base(c) = IF L = 0 THEN c.prev ELSE c.list[L]
  BY DEF Base, Last
<1>4. Base(c) \in Nat
  BY NthProperties
<1>5. \A n \in Nat \ {0} :
        /\ n <= L => NthTimestamp(c, n) = c.list[n]
        /\ n > L => NthTimestamp(c, n) = Base(c) + (n - L)
  BY NthProperties
<1> HIDE DEF L
<1>6. NthTimestamp(c, 1) > c.prev
  <2>1. CASE L = 0
    BY <1>1, <1>3, <1>5, <2>1
  <2>2. CASE L > 0
    BY <1>1, <1>2, <1>5, <2>2
  <2> QED BY <1>1, <2>1, <2>2
<1>7. ASSUME NEW n \in Nat \ {0}
      PROVE  NthTimestamp(c, n + 1) > NthTimestamp(c, n)
  <2>1. CASE n < L
    <3>1. NthTimestamp(c, n + 1) = c.list[n + 1] /\ NthTimestamp(c, n) = c.list[n]
      BY <1>1, <1>5, <2>1
    <3>2. c.list[n + 1] > c.list[(n + 1) - 1]
      BY <1>1, <1>2, <2>1
    <3> QED BY <3>1, <3>2
  <2>2. CASE n = L
    <3>1. NthTimestamp(c, n + 1) = Base(c) + (n + 1 - L) /\ NthTimestamp(c, n) = c.list[L]
      BY <1>1, <1>5, <2>2
    <3> QED BY <1>1, <1>3, <1>4, <2>2, <3>1
  <2>3. CASE n > L
    <3>1. /\ NthTimestamp(c, n + 1) = Base(c) + (n + 1 - L)
          /\ NthTimestamp(c, n) = Base(c) + (n - L)
      BY <1>1, <1>5, <2>3
    <3> QED BY <1>1, <1>4, <3>1
  <2> QED BY <1>1, <2>1, <2>2, <2>3
<1> QED BY <1>6, <1>7

\* Taking timestamps off a clock leaves a clock whose list increases, and does
\* not change what it will say.
LEMMA AdvancedProperties ==
  ASSUME NEW c \in Clock, Increases(c), NEW n \in Nat \ {0}
  PROVE  /\ Advanced(c, n) \in Clock
         /\ Increases(Advanced(c, n))
         /\ Advanced(c, n).prev = NthTimestamp(c, n)
         /\ \A limit \in Nat : Below(c, limit) => Below(Advanced(c, n), limit)
         /\ \A i \in Nat \ {0} :
              NthTimestamp(Advanced(c, n), i) = NthTimestamp(c, n + i)
<1> DEFINE L == Len(c.list)
           a == Advanced(c, n)
<1>1. /\ c.list \in Seq(Nat)
      /\ L \in Nat
      /\ \A i \in 1 .. L : c.list[i] \in Nat
      /\ c.prev \in Nat
      /\ c.need_lookup \in BOOLEAN
  BY ClockFields
<1>2. /\ NthTimestamp(c, n) \in Nat
      /\ n <= L => NthTimestamp(c, n) = c.list[n]
      /\ n > L => NthTimestamp(c, n) = Base(c) + (n - L)
  BY NthProperties
<1>3. /\ a.list = SubSeq(c.list, n + 1, L)
      /\ a.prev = NthTimestamp(c, n)
      /\ a.need_lookup = (c.need_lookup \/ n > L)
  BY DEF Advanced
<1>4. /\ a.list \in Seq(Nat)
      /\ Len(a.list) = IF n + 1 <= L THEN L - n ELSE 0
      /\ \A i \in 1 .. L - n : a.list[i] = c.list[n + i]
  <2>1. \A i \in n + 1 .. L : c.list[i] \in Nat
    BY <1>1
  <2>2. n + 1 \in Int /\ L \in Int
    BY <1>1
  <2>3. /\ SubSeq(c.list, n + 1, L) \in Seq(Nat)
        /\ Len(SubSeq(c.list, n + 1, L)) = IF n + 1 <= L THEN L - (n + 1) + 1 ELSE 0
        /\ \A i \in 1 .. L - (n + 1) + 1 : SubSeq(c.list, n + 1, L)[i] = c.list[n + 1 + i - 1]
    <3> HIDE DEF L
    <3> QED BY <2>1, <2>2, SubSeqProperties
  <2> HIDE DEF L, a
  <2>4. ASSUME NEW i \in 1 .. L - n
        PROVE  a.list[i] = c.list[n + i]
    <3>1. i \in 1 .. L - (n + 1) + 1 /\ n + 1 + i - 1 = n + i
      BY <1>1
    <3> QED BY <1>3, <2>3, <3>1
  <2>5. Len(a.list) = IF n + 1 <= L THEN L - n ELSE 0
    BY <1>1, <1>3, <2>3
  <2> QED BY <1>3, <2>3, <2>4, <2>5
<1>5. a \in Clock
  <2>1. a = [list |-> a.list, prev |-> a.prev, need_lookup |-> a.need_lookup]
    BY DEF Advanced
  <2>2. a.need_lookup \in BOOLEAN
    BY <1>3
  <2> HIDE DEF a
  <2> QED BY <1>2, <1>3, <1>4, <2>1, <2>2 DEF Clock
<1>6. \A i \in 1 .. L : c.list[i] > IF i = 1 THEN c.prev ELSE c.list[i - 1]
  BY DEF Increases
<1> HIDE DEF a, L
<1>7. Increases(a)
  <2>0. a.prev = NthTimestamp(c, n)
    BY <1>3
  <2> SUFFICES ASSUME NEW i \in 1 .. Len(a.list)
               PROVE  a.list[i] > IF i = 1 THEN a.prev ELSE a.list[i - 1]
    BY DEF Increases
  <2>1. n < L /\ i \in 1 .. L - n /\ a.list[i] = c.list[n + i]
    BY <1>1, <1>4
  <2>2. n + i \in 1 .. L /\ n + i # 1
    BY <1>1, <2>1
  <2>3. c.list[n + i] > c.list[n + i - 1]
    BY <1>6, <2>2
  <2>4. CASE i = 1
    <3>1. c.list[n + i - 1] = c.list[n] /\ a.prev = c.list[n]
      <4>1. n + i - 1 = n /\ n <= L
        BY <1>1, <2>1, <2>4
      <4> QED BY <1>2, <2>0, <4>1
    <3>2. a.list[i] > a.prev
      BY <2>1, <2>3, <3>1
    <3> QED BY <2>4, <3>2
  <2>5. CASE i # 1
    <3>1. i - 1 \in 1 .. L - n /\ n + (i - 1) = n + i - 1
      BY <1>1, <2>1, <2>5
    <3>2. a.list[i - 1] = c.list[n + i - 1]
      BY <1>4, <3>1
    <3> QED BY <2>1, <2>3, <2>5, <3>2
  <2> QED BY <2>4, <2>5
<1>8. ASSUME NEW limit \in Nat, Below(c, limit)
      PROVE  Below(a, limit)
  <2>1. \A i \in 1 .. L : c.list[i] < limit
    BY <1>8 DEF Below, L
  <2> SUFFICES ASSUME NEW i \in 1 .. Len(a.list)
               PROVE  a.list[i] < limit
    BY DEF Below
  <2>2. i \in 1 .. L - n /\ n + i \in 1 .. L
    BY <1>1, <1>4
  <2> QED BY <1>4, <2>1, <2>2
<1>9. ASSUME NEW i \in Nat \ {0}
      PROVE  NthTimestamp(a, i) = NthTimestamp(c, n + i)
  <2>1. /\ i <= Len(a.list) => NthTimestamp(a, i) = a.list[i]
        /\ i > Len(a.list) => NthTimestamp(a, i) = Base(a) + (i - Len(a.list))
    BY <1>5, NthProperties
  <2>2. n + i \in Nat \ {0}
    OBVIOUS
  <2>3. /\ n + i <= L => NthTimestamp(c, n + i) = c.list[n + i]
        /\ n + i > L => NthTimestamp(c, n + i) = Base(c) + (n + i - L)
    BY <2>2, NthProperties DEF L
  <2>4. Base(c) \in Nat
    BY NthProperties
  <2>5. CASE n + i <= L
    <3>1. i \in 1 .. L - n /\ i <= Len(a.list)
      BY <1>1, <1>4, <2>5
    <3> QED BY <1>4, <2>1, <2>3, <2>5, <3>1
  <2>6. CASE n + i > L /\ n < L
    <3>1. Len(a.list) = L - n /\ i > Len(a.list) /\ L - n \in 1 .. L - n /\ L - n # 0
      BY <1>1, <1>4, <2>6
    <3>2. a.list[L - n] = c.list[n + (L - n)] /\ n + (L - n) = L
      BY <1>1, <1>4, <3>1
    <3>3. Base(a) = a.list[L - n]
      BY <3>1 DEF Base, Last
    <3>4. Base(c) = c.list[L]
      BY <1>1, <2>6 DEF Base, Last, L
    <3>5. NthTimestamp(a, i) = Base(c) + (i - (L - n))
      BY <2>1, <3>1, <3>2, <3>3, <3>4
    <3>6. NthTimestamp(c, n + i) = Base(c) + (n + i - L)
      BY <2>3, <2>6
    <3> QED BY <1>1, <2>4, <3>5, <3>6
  <2>7. CASE n >= L
    <3>1. Len(a.list) = 0
      BY <1>1, <1>4, <2>7
    <3>2. Base(a) = NthTimestamp(c, n)
      BY <1>3, <3>1 DEF Base
    <3>3. NthTimestamp(a, i) = NthTimestamp(c, n) + i
      BY <1>2, <2>1, <3>1, <3>2
    <3>4. NthTimestamp(c, n + i) = Base(c) + (n + i - L)
      BY <1>1, <2>3, <2>7
    <3>5. CASE n = L
      <4>1. Base(c) = c.list[L]
        BY <3>5 DEF Base, Last, L
      <4> QED BY <1>1, <1>2, <2>4, <3>3, <3>4, <3>5, <4>1
    <3>6. CASE n > L
      BY <1>1, <1>2, <2>4, <3>3, <3>4, <3>6
    <3> QED BY <1>1, <2>7, <3>5, <3>6
  <2> QED BY <1>1, <2>5, <2>6, <2>7
<1> QED BY <1>3, <1>5, <1>7, <1>8, <1>9 DEF a

\* A look-up of a timestamp's low part comes to an end.
LEMMA LookupCallsType ==
  ASSUME NEW c \in Clock, NEW avtp_time \in 0 .. Wrap - 1
  PROVE  LookupCalls(c, avtp_time) \in Nat \ {0}
<1> DEFINE L == Len(c.list)
           b == Base(c)
           S == {n \in 1 .. L + Wrap : NthTimestamp(c, n) % Wrap = avtp_time}
           k == (avtp_time - b - 1) % Wrap
           q == (avtp_time - b - 1) \div Wrap
           m == L + k + 1
<1>1. L \in Nat /\ b \in Nat
  BY ClockFields, NthProperties
<1>2. Wrap \in Nat \ {0} /\ avtp_time \in Nat /\ avtp_time - b - 1 \in Int
  BY <1>1, Constants
<1>3. k \in 0 .. Wrap - 1 /\ q \in Int /\ avtp_time - b - 1 = Wrap * q + k
  <2> HIDE DEF b
  <2> QED BY <1>2, DivMod
<1>4. m \in 1 .. L + Wrap /\ m \in Nat \ {0} /\ m > L
  <2> HIDE DEF L, k
  <2> QED BY <1>1, <1>2, <1>3
<1>5. m - L = k + 1
  <2> HIDE DEF L, k
  <2> QED BY <1>1, <1>3
<1>6. b + (m - L) = Wrap * (0 - q) + avtp_time
  <2> HIDE DEF L, k, q, b, m
  <2> QED BY <1>1, <1>2, <1>3, <1>5
<1>7. (Wrap * (0 - q) + avtp_time) % Wrap = avtp_time
  <2> DEFINE p == 0 - q
  <2>1. p \in Int
    BY <1>3
  <2> HIDE DEF p
  <2>2. (Wrap * p + avtp_time) % Wrap = avtp_time
    BY <1>2, <2>1, ModUnique
  <2> QED BY <2>2 DEF p
<1>8. m \in S
  <2> HIDE DEF m, q
  <2>1. NthTimestamp(c, m) = b + (m - L)
    BY <1>4, NthProperties
  <2> QED BY <1>4, <1>6, <1>7, <2>1
<1>9. S \subseteq Nat /\ S # {}
  <2> HIDE DEF m, L
  <2> QED BY <1>1, <1>2, <1>8
<1> HIDE DEF k, q, b, m
<1>10. PICK x \in S : \A y \in S : x <= y
  <2> HIDE DEF S
  <2> QED BY <1>9, LeastElement
<1>11. \A y \in S : x <= y
  BY <1>10
<1>12. Min(S) \in S
  <2> HIDE DEF S
  <2> QED BY <1>11 DEF Min
<1>13. LookupCalls(c, avtp_time) = Min(S)
  BY DEF LookupCalls
<1> QED BY <1>1, <1>12, <1>13

-----------------------------------------------------------------------------
\* CRF PDUs on their way to a media clock.

\* The clock increases and what is on its way lies ahead of it, in order and
\* apart, each PDU of its PerCrf timestamps, and before a limit.
InLine(c, queue, limit, mtt) ==
  /\ Increases(c)
  /\ Below(c, limit + mtt)
  /\ \A i \in 1 .. Len(queue) :
       /\ queue[i].ts > 0
       /\ queue[i].ts + PerCrf <= limit
       /\ Below(c, queue[i].ts + mtt)
  /\ \A i, j \in 1 .. Len(queue) : i < j => queue[i].ts + PerCrf <= queue[j].ts

LEMMA PduFields ==
  ASSUME NEW queue \in Seq(CrfPdu)
  PROVE  /\ Len(queue) \in Nat
         /\ \A i \in 1 .. Len(queue) :
              queue[i] \in CrfPdu /\ queue[i].ts \in Nat /\ queue[i].due \in Nat
<1>1. Len(queue) \in Nat /\ \A i \in 1 .. Len(queue) : queue[i] \in CrfPdu
  BY LenProperties, ElementOfSeq
<1> QED BY <1>1 DEF CrfPdu

LEMMA BelowMore ==
  ASSUME NEW c \in Clock, NEW a \in Nat, NEW b \in Nat, a <= b, Below(c, a)
  PROVE  Below(c, b)
<1>1. \A i \in 1 .. Len(c.list) : c.list[i] \in Nat
  BY ClockFields
<1> QED BY <1>1 DEF Below

\* A new PDU joins the end of the line.
LEMMA InLineSend ==
  ASSUME NEW c \in Clock, NEW queue \in Seq(CrfPdu), NEW limit \in Nat, NEW mtt \in Nat,
         InLine(c, queue, limit, mtt), limit > 0,
         NEW pdu \in CrfPdu, pdu.ts = limit
  PROVE  /\ Append(queue, pdu) \in Seq(CrfPdu)
         /\ InLine(c, Append(queue, pdu), limit + PerCrf, mtt)
<1> DEFINE L == Len(queue)
           r == Append(queue, pdu)
<1>1. L \in Nat /\ \A i \in 1 .. L : queue[i].ts \in Nat
  BY PduFields
<1>2. /\ r \in Seq(CrfPdu)
      /\ Len(r) = L + 1
      /\ \A i \in 1 .. L : r[i] = queue[i]
      /\ r[L + 1] = pdu
  BY AppendProperties
<1>3. /\ Increases(c)
      /\ Below(c, limit + mtt)
      /\ \A i \in 1 .. L : /\ queue[i].ts > 0
                           /\ queue[i].ts + PerCrf <= limit
                           /\ Below(c, queue[i].ts + mtt)
      /\ \A i, j \in 1 .. L : i < j => queue[i].ts + PerCrf <= queue[j].ts
  BY DEF InLine
<1> HIDE DEF L, r
<1>4. Below(c, limit + PerCrf + mtt)
  <2>1. limit + mtt \in Nat /\ limit + PerCrf + mtt \in Nat
        /\ limit + mtt <= limit + PerCrf + mtt
    BY Constants
  <2> QED BY <1>3, <2>1, BelowMore
<1>5. ASSUME NEW i \in 1 .. Len(r)
      PROVE  /\ r[i].ts > 0
             /\ r[i].ts + PerCrf <= limit + PerCrf
             /\ Below(c, r[i].ts + mtt)
  <2>1. CASE i \in 1 .. L
    <3> DEFINE ts == queue[i].ts
    <3>1. r[i].ts = ts /\ ts \in Nat
      BY <1>1, <1>2, <2>1
    <3>2. ts > 0 /\ ts + PerCrf <= limit /\ Below(c, ts + mtt)
      BY <1>3, <2>1
    <3> HIDE DEF ts
    <3>3. ts + PerCrf <= limit + PerCrf
      BY <3>1, <3>2, Constants
    <3> QED BY <3>1, <3>2, <3>3
  <2>2. CASE i = L + 1
    <3>1. r[i].ts = limit
      BY <1>2, <2>2
    <3> QED BY <1>3, <3>1, Constants
  <2> QED BY <1>1, <1>2, <2>1, <2>2
<1>6. ASSUME NEW i \in 1 .. Len(r), NEW j \in 1 .. Len(r), i < j
      PROVE  r[i].ts + PerCrf <= r[j].ts
  <2>1. i \in 1 .. L
    BY <1>1, <1>2, <1>6
  <2>2. CASE j \in 1 .. L
    BY <1>2, <1>3, <1>6, <2>1, <2>2
  <2>3. CASE j = L + 1
    BY <1>2, <1>3, <2>1, <2>3
  <2> QED BY <1>1, <1>2, <2>2, <2>3
<1>7. InLine(c, r, limit + PerCrf, mtt)
  BY <1>3, <1>4, <1>5, <1>6 DEF InLine
<1> QED BY <1>2, <1>7 DEF r

\* The clock takes in the first PDU of the line.
LEMMA InLineTake ==
  ASSUME NEW c \in Clock, NEW queue \in Seq(CrfPdu), NEW limit \in Nat, NEW mtt \in Nat,
         InLine(c, queue, limit, mtt), queue # <<>>
  PROVE  /\ Head(queue) \in CrfPdu
         /\ Head(queue).ts \in Nat
         /\ Head(queue).ts > 0
         /\ Below(c, Head(queue).ts + mtt)
         /\ Tail(queue) \in Seq(CrfPdu)
         /\ Recovered(c, Head(queue).ts, mtt) \in Clock
         /\ InLine(Recovered(c, Head(queue).ts, mtt), Tail(queue), limit, mtt)
<1> DEFINE L == Len(queue)
           h == Head(queue)
           t == Tail(queue)
           r == Recovered(c, h.ts, mtt)
<1>1. L \in Nat /\ \A i \in 1 .. L : queue[i] \in CrfPdu /\ queue[i].ts \in Nat
  BY PduFields
<1>2. L > 0
  BY EmptySeq
<1>3. h = queue[1] /\ t \in Seq(CrfPdu) /\ Len(t) = L - 1
      /\ \A i \in 1 .. Len(t) : t[i] = queue[i + 1]
  BY HeadTailProperties
<1>4. /\ Increases(c)
      /\ \A i \in 1 .. L : /\ queue[i].ts > 0
                           /\ queue[i].ts + PerCrf <= limit
                           /\ Below(c, queue[i].ts + mtt)
      /\ \A i, j \in 1 .. L : i < j => queue[i].ts + PerCrf <= queue[j].ts
  BY DEF InLine
<1> HIDE DEF L, t, h
<1>5. 1 \in 1 .. L
  BY <1>1, <1>2
<1>6. h \in CrfPdu /\ h.ts \in Nat /\ h.ts > 0 /\ h.ts + PerCrf <= limit
      /\ Below(c, h.ts + mtt)
  BY <1>1, <1>3, <1>4, <1>5
<1>7. r \in Clock /\ Increases(r) /\ Below(r, h.ts + mtt + PerCrf)
  BY <1>4, <1>6, RecoveredProperties
<1> HIDE DEF r
<1>8. Below(r, limit + mtt)
  <2>1. h.ts + mtt + PerCrf \in Nat /\ limit + mtt \in Nat
        /\ h.ts + mtt + PerCrf <= limit + mtt
    BY <1>6, Constants
  <2> QED BY <1>7, <2>1, BelowMore
<1>9. ASSUME NEW i \in 1 .. Len(t)
      PROVE  /\ t[i].ts > 0
             /\ t[i].ts + PerCrf <= limit
             /\ Below(r, t[i].ts + mtt)
  <2>1. i + 1 \in 1 .. L /\ 1 < i + 1 /\ t[i] = queue[i + 1]
    BY <1>1, <1>3
  <2>2. h.ts + PerCrf <= t[i].ts /\ t[i].ts \in Nat
    BY <1>1, <1>3, <1>4, <1>5, <2>1
  <2>3. h.ts + mtt + PerCrf \in Nat /\ t[i].ts + mtt \in Nat
        /\ h.ts + mtt + PerCrf <= t[i].ts + mtt
    <3> DEFINE a == h.ts
               b == t[i].ts
    <3>1. a \in Nat /\ b \in Nat /\ a + PerCrf <= b
      BY <1>6, <2>2
    <3> HIDE DEF a, b
    <3>2. a + mtt + PerCrf \in Nat /\ b + mtt \in Nat /\ a + mtt + PerCrf <= b + mtt
      BY <3>1, Constants
    <3> QED BY <3>2 DEF a, b
  <2>4. Below(r, t[i].ts + mtt)
    BY <1>7, <2>3, BelowMore
  <2> QED BY <1>4, <2>1, <2>4
<1>10. ASSUME NEW i \in 1 .. Len(t), NEW j \in 1 .. Len(t), i < j
       PROVE  t[i].ts + PerCrf <= t[j].ts
  <2>1. i + 1 \in 1 .. L /\ j + 1 \in 1 .. L /\ i + 1 < j + 1
    BY <1>1, <1>3, <1>10
  <2> QED BY <1>3, <1>4, <2>1
<1>11. InLine(r, t, limit, mtt)
  BY <1>7, <1>8, <1>9, <1>10 DEF InLine
<1> QED BY <1>3, <1>6, <1>7, <1>11 DEF r, t, h

\* A PDU is lost from the line.
LEMMA InLineLose ==
  ASSUME NEW c \in Clock, NEW queue \in Seq(CrfPdu), NEW limit \in Nat, NEW mtt \in Nat,
         InLine(c, queue, limit, mtt), NEW k \in 1 .. Len(queue)
  PROVE  /\ RemoveAt(queue, k) \in Seq(CrfPdu)
         /\ InLine(c, RemoveAt(queue, k), limit, mtt)
<1> DEFINE L == Len(queue)
           r == RemoveAt(queue, k)
           at(i) == IF i < k THEN i ELSE i + 1
<1>1. L \in Nat
  BY PduFields
<1>2. /\ r \in Seq(CrfPdu)
      /\ Len(r) = L - 1
      /\ \A i \in 1 .. L - 1 : r[i] = IF i < k THEN queue[i] ELSE queue[i + 1]
  BY RemoveAtProperties
<1>3. /\ Increases(c)
      /\ Below(c, limit + mtt)
      /\ \A i \in 1 .. L : /\ queue[i].ts > 0
                           /\ queue[i].ts + PerCrf <= limit
                           /\ Below(c, queue[i].ts + mtt)
      /\ \A i, j \in 1 .. L : i < j => queue[i].ts + PerCrf <= queue[j].ts
  BY DEF InLine
<1> HIDE DEF r, L
<1>4. \A i \in 1 .. Len(r) : at(i) \in 1 .. L /\ r[i] = queue[at(i)]
  BY <1>1, <1>2
<1>5. \A i, j \in 1 .. Len(r) : i < j => at(i) < at(j)
  BY <1>1, <1>2
<1> HIDE DEF at
<1>6. ASSUME NEW i \in 1 .. Len(r)
      PROVE  /\ r[i].ts > 0
             /\ r[i].ts + PerCrf <= limit
             /\ Below(c, r[i].ts + mtt)
  BY <1>3, <1>4
<1>7. ASSUME NEW i \in 1 .. Len(r), NEW j \in 1 .. Len(r), i < j
      PROVE  r[i].ts + PerCrf <= r[j].ts
  BY <1>3, <1>4, <1>5, <1>7
<1> QED BY <1>2, <1>3, <1>6, <1>7 DEF InLine, r

\* The line takes longer.
LEMMA InLineHold ==
  ASSUME NEW c \in Clock, NEW queue \in Seq(CrfPdu), NEW limit \in Nat, NEW mtt \in Nat,
         InLine(c, queue, limit, mtt), queue # <<>>
  PROVE  /\ Hold(queue) \in Seq(CrfPdu)
         /\ Len(Hold(queue)) = Len(queue)
         /\ \A i \in 1 .. Len(queue) :
              /\ Hold(queue)[i].ts = queue[i].ts
              /\ Hold(queue)[i].due <= queue[i].due + Delay
         /\ InLine(c, Hold(queue), limit, mtt)
<1> DEFINE L == Len(queue)
           late == [queue[1] EXCEPT !.due = queue[1].due + Delay]
           r == Hold(queue)
<1>1. L \in Nat /\ \A i \in 1 .. L : queue[i] \in CrfPdu /\ queue[i].ts \in Nat /\ queue[i].due \in Nat
  BY PduFields
<1>2. 1 \in 1 .. L
  BY <1>1, EmptySeq
<1>3. late \in CrfPdu /\ late.ts = queue[1].ts /\ late.due = queue[1].due + Delay
  <2>1. queue[1] \in CrfPdu
    BY <1>1, <1>2
  <2>2. PICK ts \in Nat, due \in Nat : queue[1] = [ts |-> ts, due |-> due]
    BY <2>1 DEF CrfPdu
  <2>3. late = [ts |-> ts, due |-> due + Delay]
    BY <2>2
  <2>4. due + Delay \in Nat
    BY Constants
  <2> HIDE DEF late
  <2> QED BY <2>2, <2>3, <2>4 DEF CrfPdu
<1>4. r = [queue EXCEPT ![1] = late]
  BY DEF Hold
<1> HIDE DEF late, r, L
<1>5. /\ r \in Seq(CrfPdu)
      /\ Len(r) = L
      /\ \A i \in 1 .. L : r[i] = IF i = 1 THEN late ELSE queue[i]
  BY <1>2, <1>3, <1>4, ExceptSeq DEF L
<1>6. ASSUME NEW i \in 1 .. L
      PROVE  r[i].ts = queue[i].ts /\ r[i].due <= queue[i].due + Delay
  <2>1. CASE i = 1
    BY <1>1, <1>3, <1>5, <2>1, Constants
  <2>2. CASE i # 1
    BY <1>1, <1>5, <2>2, Constants
  <2> QED BY <2>1, <2>2
<1>7. InLine(c, r, limit, mtt)
  BY <1>5, <1>6 DEF InLine, L
<1> QED BY <1>5, <1>6, <1>7 DEF r, L

\* The clock is used.
LEMMA InLineUse ==
  ASSUME NEW c \in Clock, NEW queue \in Seq(CrfPdu), NEW limit \in Nat, NEW mtt \in Nat,
         InLine(c, queue, limit, mtt), NEW n \in Nat \ {0}
  PROVE  InLine(Advanced(c, n), queue, limit, mtt)
<1>1. /\ Increases(c)
      /\ Below(c, limit + mtt)
      /\ \A i \in 1 .. Len(queue) : /\ queue[i].ts > 0
                                    /\ queue[i].ts + PerCrf <= limit
                                    /\ Below(c, queue[i].ts + mtt)
      /\ \A i, j \in 1 .. Len(queue) : i < j => queue[i].ts + PerCrf <= queue[j].ts
  BY DEF InLine
<1>2. /\ Increases(Advanced(c, n))
      /\ \A bound \in Nat : Below(c, bound) => Below(Advanced(c, n), bound)
  BY <1>1, AdvancedProperties
<1>3. \A i \in 1 .. Len(queue) : queue[i].ts \in Nat
  BY PduFields
<1>4. \A i \in 1 .. Len(queue) : Below(Advanced(c, n), queue[i].ts + mtt)
  BY <1>1, <1>2, <1>3
<1>5. Below(Advanced(c, n), limit + mtt)
  BY <1>1, <1>2
<1> QED BY <1>1, <1>2, <1>4, <1>5 DEF InLine

\* Being in line is a matter of the list and the last timestamp used.
LEMMA InLineSame ==
  ASSUME NEW c, NEW d, NEW queue, NEW limit, NEW mtt,
         InLine(c, queue, limit, mtt), d.list = c.list, d.prev = c.prev
  PROVE  InLine(d, queue, limit, mtt)
BY DEF InLine, Increases, Below

\* The first of the list is used for something else.
LEMMA InLineDrop ==
  ASSUME NEW c \in Clock, NEW queue \in Seq(CrfPdu), NEW limit \in Nat, NEW mtt \in Nat,
         InLine(c, queue, limit, mtt), c.list # <<>>
  PROVE  /\ [c EXCEPT !.list = Tail(c.list)] \in Clock
         /\ InLine([c EXCEPT !.list = Tail(c.list)], queue, limit, mtt)
<1> DEFINE L == Len(c.list)
           t == Tail(c.list)
           d == [c EXCEPT !.list = Tail(c.list)]
<1>1. /\ c.list \in Seq(Nat)
      /\ L \in Nat
      /\ \A i \in 1 .. L : c.list[i] \in Nat
      /\ c.prev \in Nat
      /\ c.need_lookup \in BOOLEAN
  BY ClockFields
<1>2. t \in Seq(Nat) /\ Len(t) = L - 1 /\ \A i \in 1 .. Len(t) : t[i] = c.list[i + 1]
  BY <1>1, HeadTailProperties
<1> HIDE DEF t
<1>3. d = [list |-> t, prev |-> c.prev, need_lookup |-> c.need_lookup]
  <2>1. PICK l \in Seq(Nat), p \in Nat, b \in BOOLEAN :
          c = [list |-> l, prev |-> p, need_lookup |-> b]
    BY DEF Clock
  <2>2. d = [c EXCEPT !.list = t]
    BY DEF t
  <2> HIDE DEF d
  <2> QED BY <2>1, <2>2
<1>4. d \in Clock
  BY <1>1, <1>2, <1>3 DEF Clock
<1>5. d.list = t /\ d.prev = c.prev
  BY <1>3
<1> HIDE DEF d, L
<1>6. \A i \in 1 .. L : c.list[i] > IF i = 1 THEN c.prev ELSE c.list[i - 1]
  BY DEF InLine, Increases, L
<1>7. Increases(d)
  <2> SUFFICES ASSUME NEW i \in 1 .. Len(t)
               PROVE  t[i] > IF i = 1 THEN c.prev ELSE t[i - 1]
    BY <1>5 DEF Increases
  <2>0. i + 1 \in 1 .. L /\ i + 1 # 1
    BY <1>1, <1>2
  <2>1. t[i] = c.list[i + 1] /\ c.list[i + 1] > c.list[i + 1 - 1]
    BY <1>2, <1>6, <2>0
  <2>2. i + 1 - 1 = i /\ i \in 1 .. L
    BY <1>1, <1>2
  <2>3. t[i] > c.list[i]
    BY <2>1, <2>2
  <2>4. CASE i = 1
    <3> DEFINE x == t[i]
               y == c.list[i]
    <3>1. y > c.prev /\ x > y
      BY <1>6, <2>2, <2>3, <2>4
    <3>2. x \in Nat /\ y \in Nat /\ c.prev \in Nat
      <4>1. (\A j \in 1 .. L : c.list[j] \in Nat) /\ c.prev \in Nat
        BY ClockFields DEF L
      <4> QED BY <2>0, <2>1, <2>2, <4>1
    <3> HIDE DEF x, y
    <3>3. x > c.prev
      BY <3>1, <3>2
    <3> QED BY <2>4, <3>3 DEF x
  <2>5. CASE i # 1
    <3>1. i - 1 \in 1 .. Len(t) /\ i - 1 + 1 = i
      <4>1. Len(t) = L - 1 /\ L \in Nat
        BY <1>1, <1>2
      <4> QED BY <2>5, <4>1
    <3>2. t[i - 1] = c.list[i]
      BY <1>2, <3>1
    <3> QED BY <2>3, <2>5, <3>2
  <2> QED BY <2>4, <2>5
<1>8. ASSUME NEW b \in Nat, Below(c, b)
      PROVE  Below(d, b)
  <2>1. \A i \in 1 .. L : c.list[i] < b
    BY <1>8 DEF Below, L
  <2>2. ASSUME NEW i \in 1 .. Len(t)
        PROVE  t[i] < b
    <3>1. i + 1 \in 1 .. L
      BY <1>1, <1>2
    <3> QED BY <1>2, <2>1, <3>1
  <2> QED BY <1>5, <2>2 DEF Below
<1>9. \A i \in 1 .. Len(queue) : queue[i].ts \in Nat
  BY PduFields
<1>10. InLine(d, queue, limit, mtt)
  <2>1. Below(d, limit + mtt)
    BY <1>8 DEF InLine
  <2>2. \A i \in 1 .. Len(queue) : Below(d, queue[i].ts + mtt)
    BY <1>8, <1>9 DEF InLine
  <2> QED BY <1>7, <2>1, <2>2 DEF InLine
<1> QED BY <1>4, <1>10 DEF d

-----------------------------------------------------------------------------
\* AAF PDUs.

\* What aaf_talker_tx_timeout() sends.
LEMMA SentProperties ==
  ASSUME NEW time \in Nat, clock \in Clock, timer \in Nat, timer <= time
  PROVE  /\ Expirations(time) \in Nat \ {0}
         /\ Sent(time) \in Seq(AafPdu)
         /\ Len(Sent(time)) = Expirations(time)
         /\ \A i \in 1 .. Expirations(time) :
              /\ Sent(time)[i].stamp = NthTimestamp(clock, i)
              /\ Sent(time)[i].expired = timer + i - 1
         /\ Last(Sent(time)).stamp = NthTimestamp(clock, Expirations(time))
<1> DEFINE n == Expirations(time)
           pdu(i) == [avtp_time |-> Truncated(NthTimestamp(clock, i)),
                      stamp     |-> NthTimestamp(clock, i),
                      expired   |-> timer + i - 1,
                      due       |-> time + AafTransit]
<1>1. n \in Nat \ {0}
  BY DEF Expirations
<1> HIDE DEF n
<1>2. ASSUME NEW i \in 1 .. n
      PROVE  pdu(i) \in AafPdu
  <2>1. i \in Nat \ {0}
    BY <1>1
  <2>2. NthTimestamp(clock, i) \in Nat
    BY <2>1, NthProperties
  <2>3. Truncated(NthTimestamp(clock, i)) \in 0 .. Wrap - 1
    <3>1. Wrap \in Nat \ {0} /\ NthTimestamp(clock, i) \in Int
      BY <2>2, Constants
    <3> QED BY <3>1, DivMod DEF Truncated
  <2>4. timer + i - 1 \in Nat /\ time + AafTransit \in Nat
    BY <2>1, Constants
  <2> QED BY <2>2, <2>3, <2>4 DEF AafPdu
<1>3. Sent(time) = [i \in 1 .. n |-> pdu(i)]
  BY DEF Sent, n
<1>4. ASSUME NEW i \in 1 .. n
      PROVE  /\ Sent(time)[i] = pdu(i)
             /\ Sent(time)[i].stamp = NthTimestamp(clock, i)
             /\ Sent(time)[i].expired = timer + i - 1
  BY <1>3
<1> HIDE DEF pdu
<1>5. Sent(time) \in [1 .. n -> AafPdu]
  BY <1>2, <1>3
<1>6. Sent(time) \in Seq(AafPdu) /\ Len(Sent(time)) = n
  BY <1>1, <1>3, <1>5, SeqDef
<1>7. n \in 1 .. n
  BY <1>1
<1>8. Last(Sent(time)).stamp = NthTimestamp(clock, n)
  BY <1>4, <1>6, <1>7 DEF Last
<1> QED BY <1>1, <1>4, <1>6, <1>8 DEF n

-----------------------------------------------------------------------------
\* The invariant: PDUs on their way are in line with the clocks they go to,
\* and the last stamp is the last timestamp the AAF talker used.
MclkInv ==
  /\ TypeOK
  /\ clksrc > 0
  /\ InLine(clock, toTalker, clksrc + CrfTransit, AafTransit)
  /\ InLine(heard, toListener, clksrc + CrfTransit, 0)
  /\ stamped = clock.prev
  /\ timer = NotArmed => clock = FreshClock

LEMMA FreshClockProperties ==
  /\ FreshClock \in Clock
  /\ FreshClock.list = <<>>
  /\ FreshClock.prev = 0
  /\ \A limit \in Nat, mtt \in Nat : InLine(FreshClock, <<>>, limit, mtt)
<1>1. <<>> \in Seq(Nat) /\ Len(<<>>) = 0 /\ <<>> \in Seq(CrfPdu)
  BY EmptySeq
<1>2. FreshClock.list = <<>> /\ FreshClock.prev = 0
  BY DEF FreshClock
<1>3. FreshClock \in Clock
  BY <1>1 DEF FreshClock, Clock
<1>4. 1 .. 0 = {}
  OBVIOUS
<1>5. Increases(FreshClock) /\ \A limit \in Nat : Below(FreshClock, limit)
  BY <1>1, <1>2, <1>4 DEF Increases, Below
<1>6. \A limit \in Nat, mtt \in Nat : InLine(FreshClock, <<>>, limit, mtt)
  BY <1>1, <1>4, <1>5 DEF InLine
<1> QED BY <1>2, <1>3, <1>6

LEMMA MclkInit == Init => MclkInv
<1> SUFFICES ASSUME Init PROVE MclkInv
  OBVIOUS
<1>1. /\ clock = FreshClock /\ heard = FreshClock /\ timer = 0
      /\ running = TRUE /\ aligned = FALSE /\ searching = FALSE
      /\ now = Start /\ clksrc = Start /\ toTalker = <<>> /\ toListener = <<>>
      /\ aaf = <<>> /\ faults = 0 /\ stamped = 0 /\ verified = 0 /\ undisturbed = TRUE
  BY DEF Init, MclkTalkerInit, MclkListenerInit, NotArmed
<1>2. toTalker \in Seq(CrfPdu) /\ toListener \in Seq(CrfPdu) /\ aaf \in Seq(AafPdu)
  BY <1>1, EmptySeq
<1>3. clock \in Clock /\ heard \in Clock /\ stamped = clock.prev
  BY <1>1, FreshClockProperties
<1>4. TypeOK
  <2>1. timer \in Nat /\ now \in Nat /\ clksrc \in Nat /\ stamped \in Nat /\ verified \in Nat
        /\ faults \in 0 .. MaxFaults
    BY <1>1, Constants
  <2>2. running \in BOOLEAN /\ aligned \in BOOLEAN /\ searching \in BOOLEAN
        /\ undisturbed \in BOOLEAN
    BY <1>1, Zenon
  <2> QED BY <1>2, <1>3, <2>1, <2>2, Zenon DEF TypeOK
<1>5. /\ InLine(clock, toTalker, clksrc + CrfTransit, AafTransit)
      /\ InLine(heard, toListener, clksrc + CrfTransit, 0)
  <2>1. clksrc + CrfTransit \in Nat /\ AafTransit \in Nat /\ 0 \in Nat
    BY <1>1, Constants
  <2> QED BY <1>1, <2>1, FreshClockProperties
<1> QED BY <1>1, <1>3, <1>4, <1>5, Constants DEF MclkInv

\* The facts about a state that the steps below start from.
LEMMA MclkFacts ==
  ASSUME MclkInv
  PROVE  /\ clock \in Clock /\ heard \in Clock
         /\ timer \in Nat
         /\ running \in BOOLEAN /\ aligned \in BOOLEAN /\ searching \in BOOLEAN
         /\ now \in Nat /\ clksrc \in Nat /\ stamped \in Nat /\ verified \in Nat
         /\ toTalker \in Seq(CrfPdu) /\ toListener \in Seq(CrfPdu) /\ aaf \in Seq(AafPdu)
         /\ faults \in 0 .. MaxFaults
         /\ undisturbed \in BOOLEAN
         /\ clksrc > 0
         /\ clksrc + CrfTransit \in Nat
         /\ InLine(clock, toTalker, clksrc + CrfTransit, AafTransit)
         /\ InLine(heard, toListener, clksrc + CrfTransit, 0)
         /\ stamped = clock.prev
         /\ timer = NotArmed => clock = FreshClock
BY Constants DEF MclkInv, TypeOK

-----------------------------------------------------------------------------
\* The invariant, one action after the other.

LEMMA Numbers ==
  ASSUME MclkInv
  PROVE  now \in Nat /\ clksrc \in Nat /\ timer \in Nat /\ faults \in 0 .. MaxFaults
BY DEF MclkInv, TypeOK

LEMMA FaultType ==
  ASSUME MclkInv, NEW kind, Fault(kind)
  PROVE  faults' \in 0 .. MaxFaults
<1>1. faults \in 0 .. MaxFaults /\ MaxFaults \in Nat
  BY Numbers, Constants
<1> QED BY <1>1 DEF Fault

LEMMA TickKeeps ==
  ASSUME MclkInv, Tick
  PROVE  MclkInv'
<1>1. now' \in Nat
  BY MclkFacts DEF Tick
<1>2. UNCHANGED <<clock, timer, running, heard, aligned, searching, clksrc, toTalker,
                  toListener, aaf, faults, stamped, verified, undisturbed>>
  BY DEF Tick, talkerVars, listenerVars
<1> QED BY <1>1, <1>2, MclkFacts DEF MclkInv, TypeOK

LEMMA SendCrfKeeps ==
  ASSUME MclkInv, SendCrf
  PROVE  MclkInv'
<1> DEFINE pdu == [ts |-> clksrc + CrfTransit, due |-> clksrc + CrfTransit]
           limit == clksrc + CrfTransit
<1>1. /\ UNCHANGED <<clock, timer, running, heard, aligned, searching, now, aaf, faults,
                     stamped, verified, undisturbed>>
      /\ toTalker' = Append(toTalker, pdu)
      /\ toListener' = Append(toListener, pdu)
      /\ clksrc' = clksrc + PerCrf
  BY DEF SendCrf, talkerVars, listenerVars
<1>2. limit \in Nat /\ limit > 0 /\ pdu \in CrfPdu /\ pdu.ts = limit
  BY MclkFacts, Constants DEF CrfPdu
<1>3. clksrc' \in Nat /\ clksrc' > 0 /\ clksrc' + CrfTransit = limit + PerCrf
  <2>1. clksrc \in Nat /\ clksrc > 0
    BY MclkFacts
  <2>2. clksrc' = clksrc + PerCrf
    BY <1>1
  <2> QED BY <2>1, <2>2, Constants
<1> HIDE DEF pdu, limit
<1>4. /\ toTalker' \in Seq(CrfPdu)
      /\ InLine(clock, toTalker', limit + PerCrf, AafTransit)
  <2>1. InLine(clock, toTalker, limit, AafTransit)
    BY MclkFacts DEF limit
  <2> QED BY <1>1, <1>2, <2>1, MclkFacts, Constants, InLineSend
<1>5. /\ toListener' \in Seq(CrfPdu)
      /\ InLine(heard, toListener', limit + PerCrf, 0)
  <2>1. InLine(heard, toListener, limit, 0) /\ 0 \in Nat
    BY MclkFacts DEF limit
  <2> QED BY <1>1, <1>2, <2>1, MclkFacts, InLineSend
<1> QED BY <1>1, <1>3, <1>4, <1>5, MclkFacts DEF MclkInv, TypeOK

LEMMA TalkerRecvCrfKeeps ==
  ASSUME MclkInv, TalkerRecvCrf
  PROVE  MclkInv'
<1> DEFINE h == Head(toTalker)
           t == Tail(toTalker)
           r == Recovered(clock, h.ts, AafTransit)
           limit == clksrc + CrfTransit
<1>1. /\ UNCHANGED <<running, heard, aligned, searching, now, clksrc, toListener, aaf, faults,
                     stamped, verified, undisturbed>>
      /\ toTalker # <<>>
      /\ toTalker' = t
      /\ IF timer = NotArmed THEN Armed(r) ELSE clock' = r /\ UNCHANGED timer
  BY DEF TalkerRecvCrf, RecvCrf, listenerVars
<1>2. limit \in Nat /\ InLine(clock, toTalker, limit, AafTransit)
  BY MclkFacts
<1> HIDE DEF limit
<1>3. /\ h \in CrfPdu /\ h.ts \in Nat /\ h.ts > 0
      /\ Below(clock, h.ts + AafTransit)
      /\ t \in Seq(CrfPdu)
      /\ r \in Clock
      /\ InLine(r, t, limit, AafTransit)
  BY <1>1, <1>2, MclkFacts, Constants, InLineTake
<1>4. Increases(clock)
  BY <1>2 DEF InLine
<1> HIDE DEF h, t
<1>5. /\ r.prev = clock.prev
      /\ clock.prev < h.ts + AafTransit =>
           Len(r.list) = Len(clock.list) + PerCrf
      /\ clock.prev < h.ts + AafTransit =>
           \A i \in 1 .. PerCrf : r.list[Len(clock.list) + i] = h.ts + AafTransit + i - 1
  <2> DEFINE ts == h.ts
  <2>1. clock \in Clock /\ ts \in Nat /\ AafTransit \in Nat /\ Below(clock, ts + AafTransit)
    BY <1>3, MclkFacts, Constants
  <2>2. r = Recovered(clock, ts, AafTransit)
    OBVIOUS
  <2> HIDE DEF ts, r
  <2>3. /\ r.prev = clock.prev
        /\ clock.prev < ts + AafTransit => Len(r.list) = Len(clock.list) + PerCrf
        /\ clock.prev < ts + AafTransit =>
             \A i \in 1 .. PerCrf : r.list[Len(clock.list) + i] = ts + AafTransit + i - 1
    BY <1>4, <2>1, <2>2, RecoveredProperties
  <2> QED BY <2>3 DEF ts
<1> HIDE DEF r
<1>6. CASE timer = NotArmed
  <2>1. clock = FreshClock /\ clock.prev = 0 /\ Len(clock.list) = 0
    BY <1>6, MclkFacts, FreshClockProperties, EmptySeq
  <2>2. clock.prev < h.ts + AafTransit
    BY <1>3, <2>1, Constants
  <2>3. Len(r.list) = PerCrf /\ r.list[1] = h.ts + AafTransit
    <3>1. Len(r.list) = 0 + PerCrf
      BY <1>5, <2>1, <2>2
    <3>2. 1 \in 1 .. PerCrf /\ 0 + 1 = 1
      BY Constants
    <3>3. r.list[0 + 1] = h.ts + AafTransit + 1 - 1
      BY <1>5, <2>1, <2>2, <3>2
    <3> QED BY <1>3, <3>1, <3>3, Constants
  <2>4. r.list \in Seq(Nat) /\ r.list # <<>>
    BY <1>3, <2>3, ClockFields, EmptySeq, Constants
  <2>5. timer' = r.list[1] /\ clock' = [r EXCEPT !.list = Tail(r.list)]
    BY <1>1, <1>6 DEF Armed
  <2>6. timer' \in Nat /\ timer' # NotArmed
    BY <1>3, <2>3, <2>5, Constants DEF NotArmed
  <2>7. clock' \in Clock /\ InLine(clock', t, limit, AafTransit)
    BY <1>2, <1>3, <2>4, <2>5, Constants, InLineDrop
  <2>8. clock'.prev = r.prev
    <3>1. PICK l, p, b : r = [list |-> l, prev |-> p, need_lookup |-> b]
      BY <1>3 DEF Clock
    <3> QED BY <2>5, <3>1
  <2> QED BY <1>1, <1>3, <1>5, <2>6, <2>7, <2>8, MclkFacts DEF MclkInv, TypeOK, limit
<1>7. CASE timer # NotArmed
  <2>1. clock' = r /\ timer' = timer
    BY <1>1, <1>7
  <2> QED BY <1>1, <1>3, <1>5, <1>7, <2>1, MclkFacts DEF MclkInv, TypeOK, limit
<1> QED BY <1>6, <1>7

\* What the AAF talker's timeout does to the variables of the path.
LEMMA TxTimeoutFacts ==
  ASSUME MclkInv, TalkerTxTimeout
  PROVE  /\ UNCHANGED <<running, heard, aligned, searching, now, clksrc, toTalker, toListener,
                        faults, verified, undisturbed>>
         /\ running = TRUE /\ timer # NotArmed
         /\ Expirations(now) \in Nat \ {0}
         /\ timer' = timer + Expirations(now)
         /\ timer' = now + 1
         /\ clock' = Advanced(clock, Expirations(now))
         /\ aaf' = aaf \o Sent(now)
         /\ Sent(now) \in Seq(AafPdu)
         /\ Len(Sent(now)) = Expirations(now)
         /\ \A i \in 1 .. Expirations(now) :
              /\ Sent(now)[i].stamp = NthTimestamp(clock, i)
              /\ Sent(now)[i].expired = timer + i - 1
         /\ stamped' = NthTimestamp(clock, Expirations(now))
<1>1. /\ UNCHANGED <<running, heard, aligned, searching, now, clksrc, toTalker, toListener,
                     faults, verified, undisturbed>>
      /\ running /\ timer # NotArmed /\ timer <= now
      /\ timer' = now + 1
      /\ clock' = Advanced(clock, Expirations(now))
      /\ aaf' = aaf \o Sent(now)
      /\ stamped' = Last(Sent(now)).stamp
  BY DEF TalkerTxTimeout, TxTimeout, listenerVars
<1>2. now \in Nat /\ clock \in Clock /\ timer \in Nat /\ running \in BOOLEAN
  BY MclkFacts
<1>3. /\ Expirations(now) \in Nat \ {0}
      /\ Sent(now) \in Seq(AafPdu)
      /\ Len(Sent(now)) = Expirations(now)
      /\ \A i \in 1 .. Expirations(now) :
           /\ Sent(now)[i].stamp = NthTimestamp(clock, i)
           /\ Sent(now)[i].expired = timer + i - 1
      /\ Last(Sent(now)).stamp = NthTimestamp(clock, Expirations(now))
  BY <1>1, <1>2, SentProperties
<1>4. timer + Expirations(now) = now + 1
  BY <1>2 DEF Expirations
<1> QED BY <1>1, <1>2, <1>3, <1>4

LEMMA TalkerTxTimeoutKeeps ==
  ASSUME MclkInv, TalkerTxTimeout
  PROVE  MclkInv'
<1> DEFINE limit == clksrc + CrfTransit
           n == Expirations(now)
<1>1. limit \in Nat /\ InLine(clock, toTalker, limit, AafTransit)
  BY MclkFacts
<1> HIDE DEF limit
<1>2. n \in Nat \ {0}
  BY TxTimeoutFacts
<1> HIDE DEF n
<1>3. Increases(clock)
  BY <1>1 DEF InLine
<1>4. /\ Advanced(clock, n) \in Clock
      /\ Advanced(clock, n).prev = NthTimestamp(clock, n)
  BY <1>2, <1>3, MclkFacts, AdvancedProperties
<1>5. InLine(Advanced(clock, n), toTalker, limit, AafTransit)
  BY <1>1, <1>2, MclkFacts, Constants, InLineUse
<1>6. clock' \in Clock /\ InLine(clock', toTalker, limit, AafTransit) /\ stamped' = clock'.prev
  BY <1>4, <1>5, TxTimeoutFacts DEF n
<1>7. stamped' \in Nat
  BY <1>6, ClockFields
<1>8. timer' \in Nat /\ timer' # NotArmed
  BY TxTimeoutFacts, MclkFacts DEF NotArmed
<1>9. aaf' \in Seq(AafPdu)
  BY TxTimeoutFacts, MclkFacts, ConcatProperties
<1>10. UNCHANGED <<running, heard, aligned, searching, now, clksrc, toTalker, toListener,
                   faults, verified, undisturbed>>
  BY TxTimeoutFacts
<1>11. TypeOK'
  BY <1>6, <1>7, <1>8, <1>9, <1>10, MclkFacts DEF TypeOK
<1>12. limit' = limit
  BY <1>10 DEF limit
<1> QED BY <1>6, <1>8, <1>10, <1>11, <1>12, MclkFacts DEF MclkInv, limit

LEMMA ListenerRecvCrfKeeps ==
  ASSUME MclkInv, ListenerRecvCrf
  PROVE  MclkInv'
<1> DEFINE h == Head(toListener)
           t == Tail(toListener)
           r == Recovered(heard, h.ts, 0)
           limit == clksrc + CrfTransit
<1>1. /\ UNCHANGED <<clock, timer, running, aligned, searching, now, clksrc, toTalker, aaf,
                     faults, stamped, verified, undisturbed>>
      /\ toListener # <<>>
      /\ toListener' = t
      /\ heard' = r
  BY DEF ListenerRecvCrf, HandleCrf, talkerVars
<1>2. limit \in Nat /\ InLine(heard, toListener, limit, 0) /\ 0 \in Nat
  BY MclkFacts
<1> HIDE DEF limit
<1>3. t \in Seq(CrfPdu) /\ r \in Clock /\ InLine(r, t, limit, 0)
  BY <1>1, <1>2, MclkFacts, InLineTake
<1> HIDE DEF r, t
<1> QED BY <1>1, <1>3, MclkFacts DEF MclkInv, TypeOK, limit

LEMMA ListenerRecvAafKeeps ==
  ASSUME MclkInv, ListenerRecvAaf
  PROVE  MclkInv'
<1>1. /\ UNCHANGED <<clock, timer, running, now, clksrc, toTalker, toListener, faults, stamped>>
      /\ aaf # <<>>
      /\ HandleAaf(Head(aaf).avtp_time) \/ SearchForEver
      /\ aaf' = Tail(aaf)
      /\ verified' = Head(aaf).stamp
      /\ undisturbed' = (undisturbed /\ ~Blind)
  BY DEF ListenerRecvAaf, talkerVars
<1>2. Head(aaf) \in AafPdu /\ aaf' \in Seq(AafPdu)
  BY <1>1, MclkFacts, HeadTailProperties
<1>3. verified' \in Nat /\ Head(aaf).avtp_time \in 0 .. Wrap - 1
  BY <1>1, <1>2 DEF AafPdu
<1>4. undisturbed' \in BOOLEAN
  BY <1>1, Zenon
<1>5. /\ heard' \in Clock /\ aligned' \in BOOLEAN /\ searching' \in BOOLEAN
      /\ InLine(heard', toListener, clksrc + CrfTransit, 0)
  <2>1. CASE SearchForEver
    BY <2>1, MclkFacts DEF SearchForEver
  <2>2. CASE HandleAaf(Head(aaf).avtp_time)
    <3> DEFINE n == Calls(Head(aaf).avtp_time)
               after == Advanced(heard, n)
               looked == ~heard.need_lookup /\ after.need_lookup
    <3>1. /\ heard' = [after EXCEPT !.need_lookup = looked]
          /\ aligned' = (after.prev % Wrap = Head(aaf).avtp_time)
          /\ searching' = searching
      BY <2>2 DEF HandleAaf
    <3>2. n \in Nat \ {0}
      BY <1>3, MclkFacts, LookupCallsType DEF Calls
    <3> HIDE DEF n
    <3>3. Increases(heard)
      BY MclkFacts DEF InLine
    <3>4. after \in Clock
      BY <3>2, <3>3, MclkFacts, AdvancedProperties
    <3>5. InLine(after, toListener, clksrc + CrfTransit, 0)
      <4>1. 0 \in Nat
        OBVIOUS
      <4> QED BY <3>2, <4>1, MclkFacts, InLineUse
    <3>6. looked \in BOOLEAN
      BY Zenon
    <3> HIDE DEF after, looked
    <3>7. PICK l \in Seq(Nat), p \in Nat, b \in BOOLEAN :
            after = [list |-> l, prev |-> p, need_lookup |-> b]
      BY <3>4 DEF Clock
    <3>8. heard' = [list |-> l, prev |-> p, need_lookup |-> looked]
      BY <3>1, <3>7
    <3>9. heard' \in Clock /\ heard'.list = after.list /\ heard'.prev = after.prev
      BY <3>6, <3>7, <3>8 DEF Clock
    <3>10. InLine(heard', toListener, clksrc + CrfTransit, 0)
      BY <3>5, <3>9, InLineSame
    <3>11. aligned' \in BOOLEAN
      BY <3>1, Zenon
    <3> QED BY <3>1, <3>9, <3>10, <3>11, MclkFacts
  <2> QED BY <1>1, <2>1, <2>2
<1> QED BY <1>1, <1>2, <1>3, <1>4, <1>5, MclkFacts DEF MclkInv, TypeOK

LEMMA LoseCrfKeeps ==
  ASSUME MclkInv, LoseCrf
  PROVE  MclkInv'
<1> DEFINE limit == clksrc + CrfTransit
<1>1. /\ UNCHANGED <<clock, timer, running, heard, aligned, searching, now, clksrc, aaf,
                     stamped, verified>>
      /\ undisturbed' = FALSE
      /\ Fault("crf_loss")
  BY DEF LoseCrf, talkerVars, listenerVars
<1>2. limit \in Nat /\ InLine(clock, toTalker, limit, AafTransit)
      /\ InLine(heard, toListener, limit, 0) /\ 0 \in Nat
  BY MclkFacts
<1> HIDE DEF limit
<1>3. faults' \in 0 .. MaxFaults
  BY <1>1, FaultType
<1>4. DOMAIN toTalker = 1 .. Len(toTalker) /\ DOMAIN toListener = 1 .. Len(toListener)
  BY MclkFacts, LenProperties
<1>5. /\ toTalker' \in Seq(CrfPdu) /\ toListener' \in Seq(CrfPdu)
      /\ InLine(clock, toTalker', limit, AafTransit)
      /\ InLine(heard, toListener', limit, 0)
  <2>1. ASSUME NEW i \in DOMAIN toTalker,
               toTalker' = RemoveAt(toTalker, i) /\ UNCHANGED toListener
        PROVE  /\ toTalker' \in Seq(CrfPdu) /\ toListener' \in Seq(CrfPdu)
               /\ InLine(clock, toTalker', limit, AafTransit)
               /\ InLine(heard, toListener', limit, 0)
    BY <1>2, <1>4, <2>1, MclkFacts, Constants, InLineLose
  <2>2. ASSUME NEW i \in DOMAIN toListener,
               toListener' = RemoveAt(toListener, i) /\ UNCHANGED toTalker
        PROVE  /\ toTalker' \in Seq(CrfPdu) /\ toListener' \in Seq(CrfPdu)
               /\ InLine(clock, toTalker', limit, AafTransit)
               /\ InLine(heard, toListener', limit, 0)
    BY <1>2, <1>4, <2>2, MclkFacts, InLineLose
  <2> QED BY <2>1, <2>2 DEF LoseCrf
<1> QED BY <1>1, <1>3, <1>5, MclkFacts DEF MclkInv, TypeOK, limit

LEMMA LoseAafKeeps ==
  ASSUME MclkInv, LoseAaf
  PROVE  MclkInv'
<1>1. /\ UNCHANGED <<clock, timer, running, heard, aligned, searching, now, clksrc, toTalker,
                     toListener, stamped, verified>>
      /\ undisturbed' = FALSE
      /\ Fault("aaf_loss")
  BY DEF LoseAaf, talkerVars, listenerVars
<1>2. PICK i \in DOMAIN aaf : aaf' = RemoveAt(aaf, i)
  BY DEF LoseAaf
<1>3. aaf' \in Seq(AafPdu)
  <2>1. i \in 1 .. Len(aaf)
    BY <1>2, MclkFacts, LenProperties
  <2> QED BY <1>2, <2>1, MclkFacts, RemoveAtProperties
<1>4. faults' \in 0 .. MaxFaults
  BY <1>1, FaultType
<1> QED BY <1>1, <1>3, <1>4, MclkFacts DEF MclkInv, TypeOK

\* The AAF PDU that takes longer is still the same.
LEMMA HoldAaf ==
  ASSUME NEW queue \in Seq(AafPdu), queue # <<>>
  PROVE  /\ Hold(queue) \in Seq(AafPdu)
         /\ Len(Hold(queue)) = Len(queue)
         /\ \A i \in 1 .. Len(queue) : /\ Hold(queue)[i].stamp = queue[i].stamp
                                       /\ Hold(queue)[i].expired = queue[i].expired
<1> DEFINE L == Len(queue)
           late == [queue[1] EXCEPT !.due = queue[1].due + Delay]
           r == Hold(queue)
<1>1. L \in Nat /\ \A i \in 1 .. L : queue[i] \in AafPdu
  BY LenProperties, ElementOfSeq
<1>2. 1 \in 1 .. L
  BY <1>1, EmptySeq
<1>3. late \in AafPdu /\ late.stamp = queue[1].stamp /\ late.expired = queue[1].expired
  <2>1. queue[1] \in AafPdu
    BY <1>1, <1>2
  <2>2. PICK avtp_time \in 0 .. Wrap - 1, stamp \in Nat, expired \in Nat, due \in Nat :
          queue[1] = [avtp_time |-> avtp_time, stamp |-> stamp,
                      expired |-> expired, due |-> due]
    BY <2>1 DEF AafPdu
  <2>3. late = [avtp_time |-> avtp_time, stamp |-> stamp,
                expired |-> expired, due |-> due + Delay]
    BY <2>2
  <2>4. due + Delay \in Nat
    BY Constants
  <2> HIDE DEF late
  <2> QED BY <2>2, <2>3, <2>4 DEF AafPdu
<1>4. r = [queue EXCEPT ![1] = late]
  BY DEF Hold
<1> HIDE DEF late, r, L
<1>5. /\ r \in Seq(AafPdu)
      /\ Len(r) = L
      /\ \A i \in 1 .. L : r[i] = IF i = 1 THEN late ELSE queue[i]
  BY <1>2, <1>3, <1>4, ExceptSeq DEF L
<1>6. \A i \in 1 .. L : r[i].stamp = queue[i].stamp /\ r[i].expired = queue[i].expired
  BY <1>3, <1>5
<1> QED BY <1>5, <1>6 DEF r, L

LEMMA BeLateKeeps ==
  ASSUME MclkInv, BeLate
  PROVE  MclkInv'
<1> DEFINE limit == clksrc + CrfTransit
<1>1. /\ UNCHANGED <<clock, timer, running, heard, aligned, searching, now, clksrc, stamped,
                     verified, undisturbed>>
      /\ Fault("late")
  BY DEF BeLate, talkerVars, listenerVars
<1>2. limit \in Nat /\ InLine(clock, toTalker, limit, AafTransit)
      /\ InLine(heard, toListener, limit, 0) /\ 0 \in Nat
  BY MclkFacts
<1> HIDE DEF limit
<1>3. faults' \in 0 .. MaxFaults
  BY <1>1, FaultType
<1>4. /\ toTalker' \in Seq(CrfPdu) /\ toListener' \in Seq(CrfPdu) /\ aaf' \in Seq(AafPdu)
      /\ InLine(clock, toTalker', limit, AafTransit)
      /\ InLine(heard, toListener', limit, 0)
  <2>1. CASE toTalker # <<>> /\ toTalker' = Hold(toTalker) /\ UNCHANGED <<toListener, aaf>>
    BY <1>2, <2>1, MclkFacts, Constants, InLineHold
  <2>2. CASE toListener # <<>> /\ toListener' = Hold(toListener) /\ UNCHANGED <<toTalker, aaf>>
    BY <1>2, <2>2, MclkFacts, InLineHold
  <2>3. CASE aaf # <<>> /\ aaf' = Hold(aaf) /\ UNCHANGED <<toTalker, toListener>>
    BY <1>2, <2>3, MclkFacts, HoldAaf
  <2> QED BY <2>1, <2>2, <2>3 DEF BeLate
<1> QED BY <1>1, <1>3, <1>4, MclkFacts DEF MclkInv, TypeOK, limit

LEMMA InvalidDatagramKeeps ==
  ASSUME MclkInv, InvalidDatagram
  PROVE  MclkInv'
<1>1. /\ UNCHANGED <<clock, timer, heard, aligned, searching, now, clksrc, toTalker, toListener,
                     aaf, stamped, verified, undisturbed>>
      /\ Fault("invalid")
      /\ running' = (timer # NotArmed)
  BY DEF InvalidDatagram, RecvInvalid, listenerVars
<1>2. running' \in BOOLEAN
  BY <1>1, Zenon
<1>3. faults' \in 0 .. MaxFaults
  BY <1>1, FaultType
<1> QED BY <1>1, <1>2, <1>3, MclkFacts DEF MclkInv, TypeOK

LEMMA MclkStep == MclkInv /\ [Next]_vars => MclkInv'
<1> SUFFICES ASSUME MclkInv, [Next]_vars PROVE MclkInv'
  OBVIOUS
<1>1. CASE UNCHANGED vars
  BY <1>1, MclkFacts DEF vars, talkerVars, listenerVars, MclkInv, TypeOK
<1>2. CASE Finished
  BY <1>2, <1>1 DEF Finished
<1>3. CASE Tick BY <1>3, TickKeeps
<1>4. CASE SendCrf BY <1>4, SendCrfKeeps
<1>5. CASE TalkerRecvCrf BY <1>5, TalkerRecvCrfKeeps
<1>6. CASE TalkerTxTimeout BY <1>6, TalkerTxTimeoutKeeps
<1>7. CASE ListenerRecvCrf BY <1>7, ListenerRecvCrfKeeps
<1>8. CASE ListenerRecvAaf BY <1>8, ListenerRecvAafKeeps
<1>9. CASE LoseCrf BY <1>9, LoseCrfKeeps
<1>10. CASE LoseAaf BY <1>10, LoseAafKeeps
<1>11. CASE BeLate BY <1>11, BeLateKeeps
<1>12. CASE InvalidDatagram BY <1>12, InvalidDatagramKeeps
<1> QED
  BY <1>1, <1>2, <1>3, <1>4, <1>5, <1>6, <1>7, <1>8, <1>9, <1>10, <1>11, <1>12 DEF Next

\* Every variable keeps its type; look-ups end, and stamps fit their field.
THEOREM TypeCorrect == Spec => []TypeOK
<1>1. MclkInv => TypeOK
  BY DEF MclkInv
<1> QED BY <1>1, MclkInit, MclkStep, PTL DEF Spec

\* Whatever is lost or late, the list of a media clock holds no timestamp twice,
\* out of order or behind what was used of it (recover_mclk()).
THEOREM ListsAlwaysIncrease == Spec => []ListsIncrease
<1>1. MclkInv => ListsIncrease
  <2> SUFFICES ASSUME MclkInv PROVE ListsIncrease
    OBVIOUS
  <2>1. Increases(clock) /\ Increases(heard)
    BY MclkFacts DEF InLine
  <2>2. DOMAIN clock.list = 1 .. Len(clock.list) /\ DOMAIN heard.list = 1 .. Len(heard.list)
    BY MclkFacts, ClockFields, LenProperties
  <2> QED BY <2>1, <2>2 DEF ListsIncrease, Increases
<1> QED BY <1>1, MclkInit, MclkStep, PTL DEF Spec

\* Whatever is lost or late, each AAF PDU is stamped at least a period after the
\* one before (recover_mclk(), get_next_mclk_timestamp()).
THEOREM ClockAlwaysAdvances == Spec => MediaClockAdvances
<1> DEFINE Advances ==
             \A i \in Len(aaf) + 1 .. Len(aaf') :
               aaf'[i].stamp > IF i = Len(aaf) + 1 THEN stamped ELSE aaf'[i - 1].stamp
<1>1. MclkInv /\ [Next]_vars => [Advances]_vars
  <2> SUFFICES ASSUME MclkInv, Next PROVE Advances
    BY DEF vars
  <2>0. Len(aaf) \in Nat
    BY MclkFacts, LenProperties
  <2>1. CASE TalkerTxTimeout
    <3> DEFINE L == Len(aaf)
               n == Expirations(now)
               s == Sent(now)
    <3>1. /\ n \in Nat \ {0} /\ aaf' = aaf \o s /\ s \in Seq(AafPdu) /\ Len(s) = n
          /\ \A i \in 1 .. n : s[i].stamp = NthTimestamp(clock, i)
      BY <2>1, TxTimeoutFacts
    <3>2. /\ Len(aaf') = L + n
          /\ \A i \in 1 .. L + n : aaf'[i] = IF i <= L THEN aaf[i] ELSE s[i - L]
      <4> HIDE DEF n, s
      <4> QED BY <3>1, MclkFacts, ConcatProperties
    <3>3. Increases(clock)
      BY MclkFacts DEF InLine
    <3>4. /\ NthTimestamp(clock, 1) > stamped
          /\ \A i \in Nat \ {0} : NthTimestamp(clock, i + 1) > NthTimestamp(clock, i)
      BY <3>3, MclkFacts, NthIncreases
    <3> HIDE DEF n, s, L
    <3>5. L \in Nat
      BY <2>0 DEF L
    <3>6. ASSUME NEW i \in L + 1 .. L + n
          PROVE  aaf'[i].stamp = NthTimestamp(clock, i - L)
      <4>1. i - L \in 1 .. n /\ i \in 1 .. L + n /\ ~(i <= L)
        BY <3>1, <3>5
      <4>2. aaf'[i] = s[i - L]
        BY <3>2, <4>1
      <4> QED BY <3>1, <4>1, <4>2
    <3>7. ASSUME NEW i \in L + 1 .. L + n
          PROVE  aaf'[i].stamp > IF i = L + 1 THEN stamped ELSE aaf'[i - 1].stamp
      <4>1. CASE i = L + 1
        <5>1. i - L = 1
          BY <3>5, <4>1
        <5> QED BY <3>4, <3>6, <4>1, <5>1
      <4>2. CASE i # L + 1
        <5>1. i - 1 \in L + 1 .. L + n /\ i - 1 - L \in Nat \ {0} /\ i - 1 - L + 1 = i - L
          BY <3>1, <3>5, <4>2
        <5>2. aaf'[i - 1].stamp = NthTimestamp(clock, i - 1 - L)
          BY <3>6, <5>1
        <5>3. NthTimestamp(clock, i - 1 - L + 1) > NthTimestamp(clock, i - 1 - L)
          BY <3>4, <5>1
        <5>4. aaf'[i].stamp = NthTimestamp(clock, i - L)
          BY <3>6
        <5> QED BY <4>2, <5>1, <5>2, <5>3, <5>4
      <4> QED BY <4>1, <4>2
    <3> QED BY <3>2, <3>7 DEF L
  <2>2. CASE Len(aaf') \in Nat /\ Len(aaf') <= Len(aaf)
    <3>1. Len(aaf) + 1 .. Len(aaf') = {}
      BY <2>0, <2>2
    <3> QED BY <3>1
  <2>3. CASE aaf' = aaf
    BY <2>0, <2>2, <2>3
  <2>4. CASE ListenerRecvAaf
    <3>1. aaf # <<>> /\ aaf' = Tail(aaf)
      BY <2>4 DEF ListenerRecvAaf
    <3>2. Len(aaf') = Len(aaf) - 1 /\ Len(aaf) # 0
      BY <3>1, MclkFacts, HeadTailProperties, EmptySeq
    <3> QED BY <2>0, <2>2, <3>2
  <2>5. CASE LoseAaf
    <3>1. PICK i \in DOMAIN aaf : aaf' = RemoveAt(aaf, i)
      BY <2>5 DEF LoseAaf
    <3>2. i \in 1 .. Len(aaf)
      BY <3>1, MclkFacts, LenProperties
    <3>3. Len(aaf') = Len(aaf) - 1
      BY <3>1, <3>2, MclkFacts, RemoveAtProperties
    <3> QED BY <2>0, <2>2, <3>2, <3>3
  <2>6. CASE BeLate
    <3>1. CASE aaf # <<>> /\ aaf' = Hold(aaf)
      <4>1. Len(aaf') = Len(aaf)
        BY <3>1, MclkFacts, HoldAaf
      <4> QED BY <2>0, <2>2, <4>1
    <3> QED BY <2>3, <2>6, <3>1 DEF BeLate
  <2> QED
    BY <2>1, <2>3, <2>4, <2>5, <2>6 DEF Next, Tick, SendCrf, TalkerRecvCrf, ListenerRecvCrf,
       LoseCrf, InvalidDatagram, Finished, vars
<1> QED BY <1>1, MclkInit, MclkStep, PTL DEF Spec, MediaClockAdvances

-----------------------------------------------------------------------------
\* How far stamps lead.

\* A stamp leads an expiration by a period, or by more but within a limit.
Leads(stamp, expired, limit) ==
  /\ stamp - expired >= 1
  /\ stamp - expired > 1 => stamp - expired <= limit

LEMMA LeadsMore ==
  ASSUME NEW stamp \in Nat, NEW expired \in Nat, NEW a \in Nat, NEW b \in Nat, a <= b,
         Leads(stamp, expired, a)
  PROVE  Leads(stamp, expired, b)
BY DEF Leads

\* What faults can have held up.
Late == faults * Delay

LeadLimit == CrfTransit + AafTransit + MaxLate + Late

\* All that a clock will say leads the expirations from time on.
ClockLeads(c, time, limit) ==
  \A n \in Nat \ {0} : Leads(NthTimestamp(c, n), time + n - 1, limit)

\* What a clock says once it has taken in a PDU: what it would have said, as far
\* as its list goes or if the PDU is late, and from there on what the PDU says.
LEMMA NthRecovered ==
  ASSUME NEW c \in Clock, NEW ts_crf \in Nat, NEW mtt \in Nat,
         Increases(c), Below(c, ts_crf + mtt)
  PROVE  \A n \in Nat \ {0} :
           NthTimestamp(Recovered(c, ts_crf, mtt), n) =
             IF c.prev >= ts_crf + mtt \/ n <= Len(c.list) THEN NthTimestamp(c, n)
             ELSE ts_crf + mtt + n - Len(c.list) - 1
<1> TAKE n \in Nat \ {0}
<1> DEFINE L == Len(c.list)
           ts == ts_crf + mtt
           r == Recovered(c, ts_crf, mtt)
           R == Len(r.list)
<1>1. L \in Nat /\ (\A i \in 1 .. L : c.list[i] \in Nat) /\ c.prev \in Nat
  BY ClockFields
<1>2. /\ r \in Clock
      /\ r.prev = c.prev
      /\ R >= L
      /\ \A i \in 1 .. L : r.list[i] = c.list[i]
      /\ c.prev < ts => R = L + PerCrf
      /\ c.prev < ts => \A i \in 1 .. PerCrf : r.list[L + i] = ts + i - 1
      /\ c.prev >= ts => \A i \in L + 1 .. R : r.list[i] = c.prev + i - L
  BY RecoveredProperties
<1>3. /\ n <= L => NthTimestamp(c, n) = c.list[n]
      /\ n > L => NthTimestamp(c, n) = Base(c) + (n - L)
  BY NthProperties
<1> HIDE DEF r
<1>4. R \in Nat
  BY <1>2, ClockFields
<1>5. /\ n <= R => NthTimestamp(r, n) = r.list[n]
      /\ n > R => NthTimestamp(r, n) = Base(r) + (n - R)
  BY <1>2, NthProperties
<1>6. Base(r) = IF R = 0 THEN c.prev ELSE r.list[R]
  BY <1>2 DEF Base, Last
<1>7. (\A i \in 1 .. L : c.list[i] < ts) /\ (L > 0 => c.list[1] > c.prev)
  BY <1>1 DEF Below, Increases
<1>8. ts \in Nat
  OBVIOUS
<1>9. L = 0 => Base(c) = c.prev
  BY DEF Base
<1> HIDE DEF L, R, ts
<1>10. ASSUME c.prev >= ts
      PROVE  NthTimestamp(r, n) = IF c.prev >= ts \/ n <= L THEN NthTimestamp(c, n)
                                  ELSE ts + n - L - 1
  <2>1. L = 0
    BY <1>1, <1>7, <1>8, <1>10
  <2>2. \A i \in 1 .. R : r.list[i] = c.prev + i
    BY <1>1, <1>2, <1>10, <2>1
  <2>3. NthTimestamp(c, n) = c.prev + n
    BY <1>1, <1>3, <1>9, <2>1
  <2>4. Base(r) = c.prev + R
    BY <1>1, <1>4, <1>6, <2>2
  <2>5. NthTimestamp(r, n) = c.prev + n
    <3>1. CASE n <= R
      BY <1>4, <1>5, <2>2, <3>1
    <3>2. CASE n > R
      BY <1>1, <1>4, <1>5, <2>4, <3>2
    <3> QED BY <1>4, <3>1, <3>2
  <2> QED BY <1>10, <2>3, <2>5
<1>11. ASSUME c.prev < ts
      PROVE  NthTimestamp(r, n) = IF c.prev >= ts \/ n <= L THEN NthTimestamp(c, n)
                                  ELSE ts + n - L - 1
  <2>1. R = L + PerCrf /\ \A i \in 1 .. PerCrf : r.list[L + i] = ts + i - 1
    BY <1>2, <1>11
  <2>2. CASE n <= L
    <3>1. n <= R /\ r.list[n] = c.list[n]
      BY <1>1, <1>2, <1>4, <2>2
    <3>2. NthTimestamp(r, n) = NthTimestamp(c, n)
      BY <1>3, <1>5, <2>2, <3>1
    <3> QED BY <2>2, <3>2
  <2>3. CASE n > L
    <3>1. NthTimestamp(r, n) = ts + n - L - 1
      <4>1. CASE n <= R
        <5>1. n - L \in 1 .. PerCrf /\ L + (n - L) = n
          BY <1>1, <2>1, <2>3, <4>1, Constants
        <5>2. r.list[n] = ts + (n - L) - 1
          BY <2>1, <5>1
        <5> QED BY <1>1, <1>5, <1>8, <4>1, <5>2
      <4>2. CASE n > R
        <5>1. PerCrf \in 1 .. PerCrf /\ R # 0
          BY <1>1, <2>1, Constants
        <5>2. r.list[R] = ts + PerCrf - 1
          BY <2>1, <5>1
        <5>3. NthTimestamp(r, n) = ts + PerCrf - 1 + (n - R)
          BY <1>5, <1>6, <4>2, <5>1, <5>2
        <5> QED BY <1>1, <1>8, <2>1, <5>3, Constants
      <4> QED BY <1>4, <4>1, <4>2
    <3>2. ~(c.prev >= ts \/ n <= L)
      BY <1>1, <1>8, <1>11, <2>3
    <3> QED BY <3>1, <3>2
  <2> QED BY <1>1, <2>2, <2>3
<1>12. NthTimestamp(r, n) = IF c.prev >= ts \/ n <= L THEN NthTimestamp(c, n)
                           ELSE ts + n - L - 1
  BY <1>1, <1>8, <1>10, <1>11
<1> QED BY <1>12 DEF r, ts, L

\* A PDU that is not from the future lets the clock lead by no more than that
\* and what the timer is behind.
LEMMA RecoveredLeads ==
  ASSUME NEW c \in Clock, NEW ts_crf \in Nat, NEW mtt \in Nat,
         Increases(c), Below(c, ts_crf + mtt),
         NEW time \in Nat, NEW limit \in Nat, ClockLeads(c, time, limit),
         ts_crf + mtt <= time + limit
  PROVE  ClockLeads(Recovered(c, ts_crf, mtt), time, limit)
<1> DEFINE L == Len(c.list)
           ts == ts_crf + mtt
           r == Recovered(c, ts_crf, mtt)
<1>1. L \in Nat /\ (\A i \in 1 .. L : c.list[i] \in Nat) /\ c.prev \in Nat
  BY ClockFields
<1>2. ts \in Nat /\ Base(c) \in Nat
  <2>1. Base(c) \in Nat
    BY NthProperties
  <2> QED BY <2>1
<1> SUFFICES ClockLeads(r, time, limit)
  OBVIOUS
<1> HIDE DEF r
<1> SUFFICES ASSUME NEW n \in Nat \ {0}
             PROVE  Leads(NthTimestamp(r, n), time + n - 1, limit)
  BY DEF ClockLeads
<1>3. NthTimestamp(r, n) = IF c.prev >= ts \/ n <= L THEN NthTimestamp(c, n)
                           ELSE ts + n - L - 1
  <2>1. NthTimestamp(Recovered(c, ts_crf, mtt), n) =
          IF c.prev >= ts_crf + mtt \/ n <= Len(c.list) THEN NthTimestamp(c, n)
          ELSE ts_crf + mtt + n - Len(c.list) - 1
    <3>1. \A m \in Nat \ {0} :
            NthTimestamp(Recovered(c, ts_crf, mtt), m) =
              IF c.prev >= ts_crf + mtt \/ m <= Len(c.list) THEN NthTimestamp(c, m)
              ELSE ts_crf + mtt + m - Len(c.list) - 1
      BY NthRecovered
    <3> QED BY <3>1, Zenon
  <2> QED BY <2>1, Zenon DEF r
<1>4. Leads(NthTimestamp(c, n), time + n - 1, limit)
  BY DEF ClockLeads
<1>5. Base(c) >= time + L
  <2> DEFINE m == L + 1
  <2>1. m \in Nat \ {0} /\ m > L /\ m = L + 1
    BY <1>1
  <2> HIDE DEF m
  <2>2. NthTimestamp(c, m) = Base(c) + (m - L)
    BY <2>1, NthProperties
  <2>3. NthTimestamp(c, m) - (time + m - 1) >= 1
    BY <2>1 DEF ClockLeads, Leads
  <2> HIDE DEF L
  <2> QED BY <1>1, <1>2, <2>1, <2>2, <2>3
<1>6. c.prev < ts => Base(c) < ts
  <2>1. L # 0 => L \in 1 .. L
    BY <1>1
  <2>2. \A i \in 1 .. L : c.list[i] < ts
    BY DEF Below
  <2> QED BY <2>1, <2>2 DEF Base, Last
<1>7. ts <= time + limit
  OBVIOUS
<1> HIDE DEF L, ts
<1>8. CASE c.prev >= ts \/ n <= L
  BY <1>3, <1>4, <1>8
<1>9. CASE ~(c.prev >= ts \/ n <= L)
  <2>1. NthTimestamp(r, n) = ts + n - L - 1
    BY <1>3, <1>9
  <2>2. ts > time + L
    BY <1>1, <1>2, <1>5, <1>6, <1>9
  <2>3. (ts + n - L - 1) - (time + n - 1) = ts - L - time
    BY <1>1, <1>2
  <2>4. ts - L - time >= 1 /\ ts - L - time <= limit
    BY <1>1, <1>2, <1>7, <2>2
  <2> QED BY <2>1, <2>3, <2>4 DEF Leads
<1> QED BY <1>8, <1>9

\* The timer armed for the head of the first PDU's timestamps, the others lead
\* its expirations by a period, if there are any.
LEMMA ArmedLeads ==
  ASSUME PerCrf > 1, NEW ts \in Nat, NEW c \in Clock, NEW d \in Clock, NEW limit \in Nat,
         Len(c.list) = PerCrf, \A i \in 1 .. PerCrf : c.list[i] = ts + i - 1,
         d.list = Tail(c.list)
  PROVE  ClockLeads(d, ts, limit)
<1>1. c.list \in Seq(Nat) /\ c.list # <<>>
  BY ClockFields, EmptySeq
<1>2. Len(d.list) = PerCrf - 1 /\ \A i \in 1 .. PerCrf - 1 : d.list[i] = c.list[i + 1]
  BY <1>1, HeadTailProperties
<1>3. \A i \in 1 .. PerCrf - 1 : d.list[i] = ts + i
  <2> SUFFICES ASSUME NEW i \in 1 .. PerCrf - 1
               PROVE  d.list[i] = ts + i
    OBVIOUS
  <2>1. i + 1 \in 1 .. PerCrf
    BY Constants
  <2>2. c.list[i + 1] = ts + (i + 1) - 1
    BY <2>1
  <2> QED BY <1>2, <2>2
<1>4. Base(d) = ts + PerCrf - 1
  <2>1. PerCrf - 1 \in 1 .. PerCrf - 1 /\ PerCrf - 1 # 0
    BY Constants
  <2>2. Base(d) = d.list[PerCrf - 1]
    BY <1>2, <2>1 DEF Base, Last
  <2> QED BY <1>3, <2>1, <2>2, Constants
<1> SUFFICES ASSUME NEW n \in Nat \ {0}
             PROVE  Leads(NthTimestamp(d, n), ts + n - 1, limit)
  BY DEF ClockLeads
<1>5. /\ n <= Len(d.list) => NthTimestamp(d, n) = d.list[n]
      /\ n > Len(d.list) => NthTimestamp(d, n) = Base(d) + (n - Len(d.list))
  BY NthProperties
<1>6. NthTimestamp(d, n) = ts + n
  <2>1. CASE n <= PerCrf - 1
    BY <1>2, <1>3, <1>5, <2>1, Constants
  <2>2. CASE n > PerCrf - 1
    BY <1>2, <1>4, <1>5, <2>2, Constants
  <2> QED BY <2>1, <2>2, Constants
<1> QED BY <1>6 DEF Leads

LEMMA AdvancedLeads ==
  ASSUME NEW c \in Clock, Increases(c), NEW time \in Nat, NEW limit \in Nat,
         ClockLeads(c, time, limit), NEW k \in Nat \ {0}
  PROVE  ClockLeads(Advanced(c, k), time + k, limit)
<1> SUFFICES ASSUME NEW n \in Nat \ {0}
             PROVE  Leads(NthTimestamp(Advanced(c, k), n), time + k + n - 1, limit)
  BY DEF ClockLeads
<1>1. NthTimestamp(Advanced(c, k), n) = NthTimestamp(c, k + n)
  BY AdvancedProperties
<1>2. k + n \in Nat \ {0}
  OBVIOUS
<1>3. Leads(NthTimestamp(c, k + n), time + (k + n) - 1, limit)
  <2> DEFINE m == k + n
  <2> HIDE DEF m
  <2>1. m \in Nat \ {0}
    BY <1>2 DEF m
  <2>2. Leads(NthTimestamp(c, m), time + m - 1, limit)
    BY <2>1 DEF ClockLeads
  <2> QED BY <2>2 DEF m
<1>4. time + (k + n) - 1 = time + k + n - 1
  OBVIOUS
<1> QED BY <1>1, <1>3, <1>4

LEMMA ClockLeadsMore ==
  ASSUME NEW c \in Clock, NEW time \in Nat, NEW a \in Nat, NEW b \in Nat, a <= b,
         ClockLeads(c, time, a)
  PROVE  ClockLeads(c, time, b)
<1> SUFFICES ASSUME NEW n \in Nat \ {0}
             PROVE  Leads(NthTimestamp(c, n), time + n - 1, b)
  BY DEF ClockLeads
<1>1. NthTimestamp(c, n) \in Nat /\ time + n - 1 \in Nat
  BY NthProperties
<1>2. Leads(NthTimestamp(c, n), time + n - 1, a)
  BY DEF ClockLeads
<1> QED BY <1>1, <1>2, LeadsMore

\* The AAF PDUs on their way lead.
AafLeads(queue, limit) ==
  \A i \in 1 .. Len(queue) : Leads(queue[i].stamp, queue[i].expired, limit)

\* CRF PDUs are not from the future, nor due later than faults can make them.
CrfInTime(queue, time, late) ==
  \A i \in 1 .. Len(queue) : /\ queue[i].ts <= time + CrfTransit
                             /\ queue[i].due <= queue[i].ts + late

\* No process and no PDU is later than it may be, and so nothing leads by more.
LeadInv ==
  /\ AafLeads(aaf, LeadLimit)
  /\ timer # NotArmed => ClockLeads(clock, timer, LeadLimit)
  /\ now <= clksrc
  /\ CrfInTime(toTalker, now, Late)
  /\ running /\ toTalker # <<>> => now <= toTalker[1].ts + Late
  /\ running /\ timer # NotArmed => now <= timer + MaxLate + Late

LEMMA AafLeadsMore ==
  ASSUME NEW queue \in Seq(AafPdu), NEW a \in Nat, NEW b \in Nat, a <= b,
         AafLeads(queue, a)
  PROVE  AafLeads(queue, b)
<1> SUFFICES ASSUME NEW i \in 1 .. Len(queue)
             PROVE  Leads(queue[i].stamp, queue[i].expired, b)
  BY DEF AafLeads
<1> DEFINE stamp == queue[i].stamp
           expired == queue[i].expired
<1>1. stamp \in Nat /\ expired \in Nat
  <2>1. queue[i] \in AafPdu
    BY ElementOfSeq
  <2> QED BY <2>1 DEF AafPdu
<1>2. Leads(stamp, expired, a)
  BY DEF AafLeads
<1> HIDE DEF stamp, expired
<1>3. Leads(stamp, expired, b)
  BY <1>1, <1>2, LeadsMore
<1> QED BY <1>3 DEF stamp, expired

LEMMA CrfInTimeMore ==
  ASSUME NEW queue \in Seq(CrfPdu), NEW t \in Nat, NEW u \in Nat, t <= u,
         NEW a \in Nat, NEW b \in Nat, a <= b, CrfInTime(queue, t, a)
  PROVE  CrfInTime(queue, u, b)
<1> SUFFICES ASSUME NEW i \in 1 .. Len(queue)
             PROVE  queue[i].ts <= u + CrfTransit /\ queue[i].due <= queue[i].ts + b
  BY DEF CrfInTime
<1> DEFINE ts == queue[i].ts
           due == queue[i].due
<1>1. ts \in Nat /\ due \in Nat
  BY PduFields
<1>2. ts <= t + CrfTransit /\ due <= ts + a
  BY DEF CrfInTime
<1> HIDE DEF ts, due
<1>3. ts <= u + CrfTransit /\ due <= ts + b
  BY <1>1, <1>2, Constants
<1> QED BY <1>3 DEF ts, due

LEMMA LateTypes ==
  ASSUME MclkInv
  PROVE  Late \in Nat /\ LeadLimit = CrfTransit + AafTransit + MaxLate + Late /\ LeadLimit \in Nat
<1>1. faults \in Nat
  BY MclkFacts, Constants
<1>2. Late \in Nat
  BY <1>1, Constants DEF Late
<1> QED BY <1>2, Constants DEF LeadLimit

LEMMA LateSame ==
  ASSUME faults' = faults
  PROVE  Late' = Late /\ LeadLimit' = LeadLimit
BY DEF Late, LeadLimit

LEMMA LateGrows ==
  ASSUME MclkInv, NEW kind, Fault(kind)
  PROVE  Late' = Late + Delay /\ LeadLimit' = LeadLimit + Delay
<1>1. faults \in Nat /\ faults' = faults + 1
  BY MclkFacts, Constants DEF Fault
<1>2. (faults + 1) * Delay = faults * Delay + Delay
  BY <1>1, Constants
<1>3. Late' = Late + Delay
  BY <1>1, <1>2 DEF Late
<1> QED BY <1>3, LateTypes, Constants DEF LeadLimit

\* A fault leaves all the more time for everything it does not touch.
LEMMA FaultLeads ==
  ASSUME MclkInv, LeadInv, NEW kind, Fault(kind)
  PROVE  /\ Late \in Nat /\ Late' \in Nat /\ Late <= Late' /\ Late' = Late + Delay
         /\ AafLeads(aaf, LeadLimit')
         /\ timer # NotArmed => ClockLeads(clock, timer, LeadLimit')
         /\ now <= clksrc
         /\ CrfInTime(toTalker, now, Late')
         /\ running /\ toTalker # <<>> => now <= toTalker[1].ts + Late'
         /\ running /\ timer # NotArmed => now <= timer + MaxLate + Late'
<1>1. /\ Late \in Nat /\ LeadLimit \in Nat
      /\ Late' \in Nat /\ Late <= Late' /\ Late' = Late + Delay
      /\ LeadLimit' \in Nat /\ LeadLimit <= LeadLimit'
  BY LateTypes, LateGrows, Constants
<1> DEFINE a == Late
           b == Late'
           l == LeadLimit
           m == LeadLimit'
<1>2. a \in Nat /\ b \in Nat /\ a <= b /\ l \in Nat /\ m \in Nat /\ l <= m
  BY <1>1
<1>3. /\ AafLeads(aaf, l)
      /\ timer # NotArmed => ClockLeads(clock, timer, l)
      /\ CrfInTime(toTalker, now, a)
      /\ running /\ toTalker # <<>> => now <= toTalker[1].ts + a
      /\ running /\ timer # NotArmed => now <= timer + MaxLate + a
      /\ now <= clksrc
  BY DEF LeadInv
<1> HIDE DEF a, b, l, m
<1>4. AafLeads(aaf, m)
  BY <1>2, <1>3, MclkFacts, AafLeadsMore
<1>5. timer # NotArmed => ClockLeads(clock, timer, m)
  BY <1>2, <1>3, MclkFacts, ClockLeadsMore
<1>6. CrfInTime(toTalker, now, b)
  BY <1>2, <1>3, MclkFacts, CrfInTimeMore
<1>7. running /\ toTalker # <<>> => now <= toTalker[1].ts + b
  <2> SUFFICES ASSUME running, toTalker # <<>>
               PROVE  now <= toTalker[1].ts + b
    OBVIOUS
  <2> DEFINE ts == toTalker[1].ts
  <2>1. 1 \in 1 .. Len(toTalker)
    BY MclkFacts, EmptySeq, LenProperties
  <2>2. ts \in Nat /\ now <= ts + a
    BY <1>3, <2>1, MclkFacts, PduFields
  <2> HIDE DEF ts
  <2>3. now <= ts + b
    BY <1>2, <2>2, Numbers
  <2> QED BY <2>3 DEF ts
<1>8. running /\ timer # NotArmed => now <= timer + MaxLate + b
  BY <1>2, <1>3, Numbers, Constants
<1> QED BY <1>1, <1>3, <1>4, <1>5, <1>6, <1>7, <1>8 DEF a, b, l, m

-----------------------------------------------------------------------------
\* The leads, one action after the other.

LEMMA LeadInit == Init => LeadInv
<1> SUFFICES ASSUME Init PROVE LeadInv
  OBVIOUS
<1>1. timer = NotArmed /\ now = clksrc /\ toTalker = <<>> /\ aaf = <<>> /\ now \in Nat
  BY Constants DEF Init, MclkTalkerInit
<1>2. Len(<<>>) = 0 /\ 1 .. 0 = {}
  BY EmptySeq
<1>3. AafLeads(<<>>, LeadLimit) /\ CrfInTime(<<>>, now, Late)
  BY <1>2 DEF AafLeads, CrfInTime
<1> QED BY <1>1, <1>3 DEF LeadInv

\* The process and its network are on time.
LEMMA TickLeads ==
  ASSUME MclkInv, LeadInv, Tick
  PROVE  LeadInv'
<1>1. /\ UNCHANGED <<clock, timer, running, clksrc, toTalker, aaf, faults>>
      /\ now' = now + 1
      /\ now < clksrc
      /\ running /\ toTalker # <<>> => now < Head(toTalker).due
      /\ running /\ timer # NotArmed => now < timer + MaxLate
  BY DEF Tick, OnTime, Pending, talkerVars
<1>2. Late' = Late /\ LeadLimit' = LeadLimit /\ Late \in Nat
  BY <1>1, LateSame, LateTypes
<1>3. CrfInTime(toTalker, now + 1, Late)
  <2> DEFINE late == Late
             next == now + 1
  <2>1. late \in Nat /\ CrfInTime(toTalker, now, late)
    BY <1>2 DEF LeadInv
  <2>2. now \in Nat /\ next \in Nat /\ now <= next /\ toTalker \in Seq(CrfPdu)
    BY MclkFacts
  <2> HIDE DEF late, next
  <2>3. CrfInTime(toTalker, next, late)
    BY <2>1, <2>2, CrfInTimeMore
  <2> QED BY <2>3 DEF late, next
<1>4. ASSUME running, toTalker # <<>>
      PROVE  now + 1 <= toTalker[1].ts + Late
  <2>1. 1 \in 1 .. Len(toTalker) /\ Head(toTalker) = toTalker[1]
    BY <1>4, MclkFacts, EmptySeq, LenProperties, HeadTailProperties
  <2> DEFINE ts == toTalker[1].ts
             due == toTalker[1].due
  <2>2. ts \in Nat /\ due \in Nat
    BY <2>1, MclkFacts, PduFields
  <2>3. now < due /\ due <= ts + Late
    BY <1>1, <1>4, <2>1 DEF LeadInv, CrfInTime
  <2> HIDE DEF ts, due
  <2>4. now + 1 <= ts + Late
    BY <1>2, <2>2, <2>3, Numbers
  <2> QED BY <2>4 DEF ts
<1>5. ASSUME running, timer # NotArmed
      PROVE  now + 1 <= timer + MaxLate + Late
  BY <1>1, <1>2, <1>5, Numbers, Constants
<1>6. now + 1 <= clksrc
  BY <1>1, Numbers
<1> QED BY <1>1, <1>2, <1>3, <1>4, <1>5, <1>6 DEF LeadInv, NotArmed

\* A CRF PDU is sent when it is due, and promised for its timestamp.
LEMMA SendCrfLeads ==
  ASSUME MclkInv, LeadInv, SendCrf
  PROVE  LeadInv'
<1> DEFINE pdu == [ts |-> clksrc + CrfTransit, due |-> clksrc + CrfTransit]
           L == Len(toTalker)
<1>1. /\ UNCHANGED <<clock, timer, running, now, aaf, faults>>
      /\ clksrc <= now
      /\ toTalker' = Append(toTalker, pdu)
      /\ clksrc' = clksrc + PerCrf
  BY DEF SendCrf, talkerVars
<1>2. Late' = Late /\ LeadLimit' = LeadLimit /\ Late \in Nat
  BY <1>1, LateSame, LateTypes
<1>3. now = clksrc /\ now <= clksrc'
  <2>1. now <= clksrc
    BY DEF LeadInv
  <2> QED BY <1>1, <2>1, Numbers, Constants
<1>4. pdu \in CrfPdu /\ pdu.ts = now + CrfTransit /\ pdu.due = pdu.ts
  BY <1>3, Numbers, Constants DEF CrfPdu
<1> HIDE DEF pdu
<1>5. /\ L \in Nat
      /\ Len(toTalker') = L + 1
      /\ \A i \in 1 .. L : toTalker'[i] = toTalker[i]
      /\ toTalker'[L + 1] = pdu
  BY <1>1, <1>4, MclkFacts, AppendProperties, LenProperties
<1> HIDE DEF L
<1>6. pdu.due <= pdu.ts + Late /\ now <= pdu.ts + Late
  <2>1. now + CrfTransit \in Nat /\ now <= now + CrfTransit /\ Late \in Nat
    BY <1>2, Numbers, Constants
  <2> DEFINE sum == now + CrfTransit
  <2>2. pdu.ts = sum /\ pdu.due = sum /\ sum \in Nat /\ now <= sum
    BY <1>4, <2>1
  <2> HIDE DEF sum
  <2>3. sum <= sum + Late /\ now <= sum + Late
    BY <2>1, <2>2, Numbers
  <2> QED BY <2>2, <2>3
<1>7. CrfInTime(toTalker', now, Late)
  <2> SUFFICES ASSUME NEW i \in 1 .. L + 1
               PROVE  /\ toTalker'[i].ts <= now + CrfTransit
                      /\ toTalker'[i].due <= toTalker'[i].ts + Late
    BY <1>5 DEF CrfInTime
  <2>1. CASE i \in 1 .. L
    BY <1>5, <2>1 DEF LeadInv, CrfInTime, L
  <2>2. CASE i = L + 1
    BY <1>4, <1>5, <1>6, <2>2, MclkFacts, Constants
  <2> QED BY <1>5, <2>1, <2>2
<1>8. ASSUME running
      PROVE  now <= toTalker'[1].ts + Late
  <2>1. CASE L = 0
    BY <1>5, <1>6, <2>1
  <2>2. CASE L # 0
    <3>1. 1 \in 1 .. L /\ toTalker # <<>>
      BY <1>5, <2>2, MclkFacts, EmptySeq DEF L
    <3> QED BY <1>5, <1>8, <3>1 DEF LeadInv
  <2> QED BY <2>1, <2>2
<1> QED BY <1>1, <1>2, <1>3, <1>7, <1>8 DEF LeadInv, NotArmed

\* The AAF talker takes in a CRF PDU.
LEMMA TalkerRecvCrfLeads ==
  ASSUME PerCrf > 1, MclkInv, LeadInv, TalkerRecvCrf
  PROVE  LeadInv'
<1> DEFINE ts == Head(toTalker).ts
           t == Tail(toTalker)
           r == Recovered(clock, ts, AafTransit)
<1>1. /\ UNCHANGED <<running, now, clksrc, aaf, faults>>
      /\ running = TRUE
      /\ toTalker # <<>>
      /\ toTalker' = t
      /\ IF timer = NotArmed THEN Armed(r) ELSE clock' = r /\ UNCHANGED timer
  BY MclkFacts DEF TalkerRecvCrf, RecvCrf, listenerVars
<1>2. Late' = Late /\ LeadLimit' = LeadLimit /\ Late \in Nat /\ LeadLimit \in Nat
      /\ LeadLimit = CrfTransit + AafTransit + MaxLate + Late
  BY <1>1, LateSame, LateTypes
<1>3. /\ ts \in Nat
      /\ Below(clock, ts + AafTransit)
      /\ r \in Clock
  BY <1>1, MclkFacts, Constants, InLineTake
<1>4. Increases(clock)
  BY MclkFacts DEF InLine
<1>5. Len(toTalker) \in Nat /\ 1 \in 1 .. Len(toTalker) /\ Head(toTalker) = toTalker[1]
      /\ Len(t) = Len(toTalker) - 1 /\ \A i \in 1 .. Len(t) : t[i] = toTalker[i + 1]
  BY <1>1, MclkFacts, EmptySeq, LenProperties, HeadTailProperties
<1>6. ts <= now + CrfTransit /\ now <= ts + Late
  BY <1>1, <1>5 DEF LeadInv, CrfInTime
<1>7. CrfInTime(t, now, Late)
  <2>1. \A i \in 1 .. Len(t) : i + 1 \in 1 .. Len(toTalker)
    BY <1>5
  <2> QED BY <1>5, <2>1 DEF LeadInv, CrfInTime
<1>8. ASSUME t # <<>>
      PROVE  now <= t[1].ts + Late
  <2>1. t \in Seq(CrfPdu)
    BY <1>1, MclkFacts, HeadTailProperties
  <2>2. 1 \in 1 .. Len(t) /\ 1 + 1 = 2 /\ 2 \in 1 .. Len(toTalker)
    BY <1>5, <1>8, <2>1, EmptySeq, LenProperties
  <2>3. toTalker[1].ts + PerCrf <= toTalker[2].ts
    BY <1>5, <2>2, MclkFacts DEF InLine
  <2>4. t[1] = toTalker[2] /\ toTalker[2].ts \in Nat
    BY <1>5, <2>2, MclkFacts, PduFields
  <2> DEFINE next == t[1].ts
  <2>5. next \in Nat /\ ts + PerCrf <= next
    BY <1>5, <2>3, <2>4
  <2> HIDE DEF ts, next
  <2>6. now <= next + Late
    <3>1. Late \in Nat /\ ts \in Nat
      BY <1>2, <1>3
    <3> QED BY <1>6, <2>5, <3>1, Numbers, Constants
  <2> QED BY <2>6 DEF next
<1>9. CASE timer = NotArmed
  <2>1. clock = FreshClock /\ clock.prev = 0 /\ Len(clock.list) = 0
    BY <1>9, MclkFacts, FreshClockProperties, EmptySeq
  <2>2. InLine(clock, toTalker, clksrc + CrfTransit, AafTransit)
    BY MclkFacts
  <2>3. 0 < ts
    BY <1>1, <2>2, MclkFacts, Constants, InLineTake
  <2> HIDE DEF ts
  <2>4. clock.prev < ts + AafTransit
    BY <1>3, <2>1, <2>3, Constants
  <2>5. Len(r.list) = PerCrf /\ \A i \in 1 .. PerCrf : r.list[i] = ts + AafTransit + i - 1
    <3> DEFINE L == Len(clock.list)
    <3>1. clock \in Clock /\ AafTransit \in Nat /\ r = Recovered(clock, ts, AafTransit)
      BY MclkFacts, Constants
    <3> HIDE DEF r
    <3>2. /\ Len(r.list) = L + PerCrf
          /\ \A i \in 1 .. PerCrf : r.list[L + i] = ts + AafTransit + i - 1
      BY <1>3, <1>4, <2>4, <3>1, RecoveredProperties
    <3>3. L = 0
      BY <2>1
    <3> HIDE DEF L
    <3>4. L + PerCrf = PerCrf /\ \A i \in 1 .. PerCrf : L + i = i
      BY <3>3, Constants
    <3> QED BY <3>2, <3>4
  <2> DEFINE armed == ts + AafTransit
  <2>6. armed \in Nat
    BY <1>3, Constants
  <2> HIDE DEF r
  <2>7. timer' = Head(r.list) /\ clock' = [r EXCEPT !.list = Tail(r.list)]
    BY <1>1, <1>9 DEF Armed
  <2>8. r.list \in Seq(Nat) /\ r.list # <<>> /\ 1 \in 1 .. PerCrf
    BY <1>3, <2>5, ClockFields, EmptySeq, Constants
  <2>9. timer' = armed
    <3>1. Head(r.list) = r.list[1] /\ r.list[1] = ts + AafTransit + 1 - 1
      BY <2>5, <2>8, HeadTailProperties
    <3> QED BY <1>3, <2>7, <3>1, Constants
  <2>10. clock' \in Clock /\ clock'.list = Tail(r.list)
    <3>1. PICK l \in Seq(Nat), p \in Nat, b \in BOOLEAN :
            r = [list |-> l, prev |-> p, need_lookup |-> b]
      BY <1>3 DEF Clock
    <3>2. Tail(r.list) \in Seq(Nat)
      BY <2>8, HeadTailProperties
    <3>3. clock' = [list |-> Tail(r.list), prev |-> p, need_lookup |-> b]
      BY <2>7, <3>1
    <3> QED BY <3>1, <3>2, <3>3 DEF Clock
  <2>11. \A i \in 1 .. PerCrf : r.list[i] = armed + i - 1
    BY <2>5 DEF armed
  <2>12. now <= armed + MaxLate + Late
    <3>1. Late \in Nat /\ ts \in Nat
      BY <1>2, <1>3
    <3> QED BY <1>6, <3>1, Numbers, Constants DEF armed
  <2> HIDE DEF armed
  <2>13. ClockLeads(clock', armed, LeadLimit)
    BY <1>2, <1>3, <2>5, <2>6, <2>10, <2>11, ArmedLeads
  <2> QED BY <1>1, <1>2, <1>7, <1>8, <2>9, <2>12, <2>13 DEF LeadInv
<1>10. CASE timer # NotArmed
  <2>1. clock' = r /\ timer' = timer
    BY <1>1, <1>10
  <2>2. ClockLeads(clock, timer, LeadLimit) /\ now <= timer + MaxLate + Late
    BY <1>1, <1>10 DEF LeadInv
  <2> HIDE DEF ts
  <2>3. ts + AafTransit <= timer + LeadLimit
    <3> DEFINE late == Late
               limit == LeadLimit
    <3>1. now \in Nat /\ timer \in Nat /\ ts \in Nat /\ late \in Nat
          /\ limit = CrfTransit + AafTransit + MaxLate + late
      BY <1>2, <1>3, MclkFacts
    <3>2. ts <= now + CrfTransit /\ now <= timer + MaxLate + late
      BY <1>6, <2>2
    <3> HIDE DEF late, limit
    <3>3. ts + AafTransit <= timer + limit
      BY <3>1, <3>2, Constants
    <3> QED BY <3>3 DEF limit
  <2>4. ClockLeads(r, timer, LeadLimit)
    BY <1>2, <1>3, <1>4, <2>2, <2>3, MclkFacts, Constants, RecoveredLeads
  <2> HIDE DEF r
  <2> QED BY <1>1, <1>2, <1>7, <1>8, <1>10, <2>1, <2>2, <2>4 DEF LeadInv
<1> QED BY <1>9, <1>10

\* The AAF talker sends, and is on time again.
LEMMA TalkerTxTimeoutLeads ==
  ASSUME MclkInv, LeadInv, TalkerTxTimeout
  PROVE  LeadInv'
<1> DEFINE n == Expirations(now)
           sent == Sent(now)
           L == Len(aaf)
           limit == LeadLimit
<1>1. /\ UNCHANGED <<running, now, clksrc, toTalker, faults>>
      /\ timer # NotArmed
      /\ timer' = timer + n
      /\ timer' = now + 1
      /\ clock' = Advanced(clock, n)
      /\ aaf' = aaf \o sent
  BY TxTimeoutFacts
<1>2. /\ n \in Nat \ {0}
      /\ sent \in Seq(AafPdu)
      /\ Len(sent) = n
      /\ \A i \in 1 .. n : /\ sent[i].stamp = NthTimestamp(clock, i)
                           /\ sent[i].expired = timer + i - 1
  BY TxTimeoutFacts
<1>3. Late' = Late /\ limit' = limit /\ Late \in Nat /\ limit \in Nat
  BY <1>1, LateSame, LateTypes
<1>4. ClockLeads(clock, timer, limit) /\ AafLeads(aaf, limit)
  BY <1>1 DEF LeadInv
<1> HIDE DEF n, sent, limit
<1>5. L \in Nat /\ Len(aaf') = L + n
      /\ \A i \in 1 .. L + n : aaf'[i] = IF i <= L THEN aaf[i] ELSE sent[i - L]
  BY <1>1, <1>2, MclkFacts, ConcatProperties, LenProperties
<1>6. AafLeads(aaf', limit)
  <2> SUFFICES ASSUME NEW i \in 1 .. L + n
               PROVE  Leads(aaf'[i].stamp, aaf'[i].expired, limit)
    BY <1>5 DEF AafLeads
  <2>1. CASE i <= L
    BY <1>4, <1>5, <2>1 DEF AafLeads
  <2>2. CASE ~(i <= L)
    <3> DEFINE k == i - L
    <3>1. k \in 1 .. n /\ k \in Nat \ {0} /\ aaf'[i] = sent[k]
      BY <1>2, <1>5, <2>2
    <3> HIDE DEF k
    <3>2. aaf'[i].stamp = NthTimestamp(clock, k) /\ aaf'[i].expired = timer + k - 1
      BY <1>2, <3>1
    <3> QED BY <1>4, <3>1, <3>2 DEF ClockLeads
  <2> QED BY <2>1, <2>2
<1>7. ClockLeads(clock', timer', limit)
  <2>1. Increases(clock)
    BY MclkFacts DEF InLine
  <2>2. ClockLeads(Advanced(clock, n), timer + n, limit)
    BY <1>2, <1>3, <1>4, <2>1, MclkFacts, AdvancedLeads
  <2> QED BY <1>1, <2>2
<1>8. now <= now + 1 + MaxLate + Late
  BY <1>3, Numbers, Constants
<1> QED BY <1>1, <1>3, <1>6, <1>7, <1>8 DEF LeadInv, limit

\* The AAF listener takes PDUs off the network.
LEMMA ListenerLeads ==
  ASSUME MclkInv, LeadInv, ListenerRecvCrf \/ ListenerRecvAaf
  PROVE  LeadInv'
<1>1. /\ UNCHANGED <<clock, timer, running, now, clksrc, toTalker, faults>>
      /\ aaf' = aaf \/ (aaf # <<>> /\ aaf' = Tail(aaf))
  BY DEF ListenerRecvCrf, ListenerRecvAaf, talkerVars
<1>2. Late' = Late /\ LeadLimit' = LeadLimit
  BY <1>1, LateSame
<1>3. AafLeads(aaf', LeadLimit)
  <2>1. CASE aaf' = aaf
    BY <2>1 DEF LeadInv
  <2>2. CASE aaf # <<>> /\ aaf' = Tail(aaf)
    <3>1. /\ Len(aaf) \in Nat /\ Len(aaf') = Len(aaf) - 1
          /\ \A i \in 1 .. Len(aaf') : aaf'[i] = aaf[i + 1]
      BY <2>2, MclkFacts, LenProperties, HeadTailProperties
    <3>2. \A i \in 1 .. Len(aaf') : i + 1 \in 1 .. Len(aaf)
      BY <3>1
    <3> QED BY <3>1, <3>2 DEF LeadInv, AafLeads
  <2> QED BY <1>1, <2>1, <2>2
<1> QED BY <1>1, <1>2, <1>3 DEF LeadInv, NotArmed

\* A lost CRF PDU leaves the ones behind it, which are the younger.
LEMMA LoseCrfLeads ==
  ASSUME MclkInv, LeadInv, LoseCrf
  PROVE  LeadInv'
<1> DEFINE late == Late'
<1>1. /\ UNCHANGED <<clock, timer, running, now, clksrc, aaf>>
      /\ Fault("crf_loss")
  BY DEF LoseCrf, talkerVars, listenerVars
<1>2. /\ late \in Nat
      /\ AafLeads(aaf, LeadLimit')
      /\ timer # NotArmed => ClockLeads(clock, timer, LeadLimit')
      /\ now <= clksrc
      /\ CrfInTime(toTalker, now, late)
      /\ running /\ toTalker # <<>> => now <= toTalker[1].ts + late
      /\ running /\ timer # NotArmed => now <= timer + MaxLate + late
  BY <1>1, FaultLeads
<1> HIDE DEF late
<1>3. CrfInTime(toTalker', now, late) /\ (running /\ toTalker' # <<>> => now <= toTalker'[1].ts + late)
  <2>1. CASE UNCHANGED toTalker
    BY <1>2, <2>1
  <2>2. ASSUME NEW k \in DOMAIN toTalker, toTalker' = RemoveAt(toTalker, k)
        PROVE  /\ CrfInTime(toTalker', now, late)
               /\ running /\ toTalker' # <<>> => now <= toTalker'[1].ts + late
    <3> DEFINE L == Len(toTalker)
               r == RemoveAt(toTalker, k)
    <3>1. L \in Nat /\ k \in 1 .. L
      BY MclkFacts, LenProperties
    <3>2. /\ r \in Seq(CrfPdu)
          /\ Len(r) = L - 1
          /\ \A i \in 1 .. L - 1 : r[i] = IF i < k THEN toTalker[i] ELSE toTalker[i + 1]
      BY <3>1, MclkFacts, RemoveAtProperties
    <3> HIDE DEF r
    <3>3. CrfInTime(r, now, late)
      <4> SUFFICES ASSUME NEW i \in 1 .. Len(r)
                   PROVE  r[i].ts <= now + CrfTransit /\ r[i].due <= r[i].ts + late
        BY DEF CrfInTime
      <4>1. PICK j \in 1 .. L : r[i] = toTalker[j]
        <5>1. i \in 1 .. L - 1 /\ i \in 1 .. L /\ i + 1 \in 1 .. L
          BY <3>1, <3>2
        <5> QED BY <3>2, <5>1
      <4>2. toTalker[j].ts <= now + CrfTransit /\ toTalker[j].due <= toTalker[j].ts + late
        BY <1>2 DEF CrfInTime
      <4> QED BY <4>1, <4>2
    <3>4. ASSUME running, r # <<>>
          PROVE  now <= r[1].ts + late
      <4>1. 1 \in 1 .. L - 1
        BY <3>1, <3>2, <3>4, EmptySeq
      <4>2. toTalker # <<>> /\ 1 \in 1 .. L /\ 2 \in 1 .. L
        BY <3>1, <4>1, EmptySeq
      <4> DEFINE a == toTalker[1].ts
                 b == toTalker[2].ts
                 c == r[1].ts
      <4>3. a \in Nat /\ b \in Nat /\ a + PerCrf <= b
        BY <4>2, MclkFacts, PduFields DEF InLine
      <4>4. c = a \/ c = b
        BY <3>2, <4>1
      <4>5. now <= a + late
        BY <1>2, <3>4, <4>2
      <4> HIDE DEF a, b, c
      <4>6. now <= c + late
        <5>1. now \in Nat /\ late \in Nat /\ PerCrf \in Nat
          BY <1>2, MclkFacts, Constants
        <5> QED BY <4>3, <4>4, <4>5, <5>1
      <4> QED BY <4>6 DEF c
    <3> QED BY <2>2, <3>3, <3>4 DEF r
  <2> QED BY <2>1, <2>2 DEF LoseCrf
<1> QED BY <1>1, <1>2, <1>3 DEF LeadInv, NotArmed, late

LEMMA LoseAafLeads ==
  ASSUME MclkInv, LeadInv, LoseAaf
  PROVE  LeadInv'
<1>1. /\ UNCHANGED <<clock, timer, running, now, clksrc, toTalker>>
      /\ Fault("aaf_loss")
  BY DEF LoseAaf, talkerVars, listenerVars
<1>2. PICK k \in DOMAIN aaf : aaf' = RemoveAt(aaf, k)
  BY DEF LoseAaf
<1> DEFINE L == Len(aaf)
           r == RemoveAt(aaf, k)
<1>3. L \in Nat /\ k \in 1 .. L
  BY MclkFacts, LenProperties
<1>4. /\ Len(r) = L - 1
      /\ \A i \in 1 .. L - 1 : r[i] = IF i < k THEN aaf[i] ELSE aaf[i + 1]
  BY <1>3, MclkFacts, RemoveAtProperties
<1> HIDE DEF r
<1>5. AafLeads(r, LeadLimit')
  <2>1. \A i \in 1 .. L - 1 : i \in 1 .. L /\ i + 1 \in 1 .. L
    BY <1>3
  <2>2. AafLeads(aaf, LeadLimit')
    BY <1>1, FaultLeads
  <2> QED BY <1>4, <2>1, <2>2 DEF AafLeads
<1> QED BY <1>1, <1>2, <1>5, FaultLeads DEF LeadInv, NotArmed, r

\* A PDU held up stays in the time the fault allows.
LEMMA BeLateLeads ==
  ASSUME MclkInv, LeadInv, BeLate
  PROVE  LeadInv'
<1> DEFINE early == Late
           late == Late'
<1>1. /\ UNCHANGED <<clock, timer, running, now, clksrc>>
      /\ Fault("late")
  BY DEF BeLate, talkerVars, listenerVars
<1>2. /\ early \in Nat /\ late \in Nat /\ late = early + Delay
      /\ AafLeads(aaf, LeadLimit')
      /\ timer # NotArmed => ClockLeads(clock, timer, LeadLimit')
      /\ now <= clksrc
      /\ CrfInTime(toTalker, now, late)
      /\ running /\ toTalker # <<>> => now <= toTalker[1].ts + late
      /\ running /\ timer # NotArmed => now <= timer + MaxLate + late
  BY <1>1, FaultLeads
<1>3. CrfInTime(toTalker, now, early)
  BY DEF LeadInv
<1> HIDE DEF early, late
<1>4. AafLeads(aaf', LeadLimit')
  <2>1. CASE aaf' = aaf
    BY <1>2, <2>1
  <2>2. CASE aaf # <<>> /\ aaf' = Hold(aaf)
    <3> DEFINE r == Hold(aaf)
    <3>1. /\ Len(r) = Len(aaf)
          /\ \A i \in 1 .. Len(aaf) : r[i].stamp = aaf[i].stamp /\ r[i].expired = aaf[i].expired
      BY <2>2, MclkFacts, HoldAaf
    <3> HIDE DEF r
    <3>2. AafLeads(r, LeadLimit')
      BY <1>2, <3>1 DEF AafLeads
    <3> QED BY <2>2, <3>2 DEF r
  <2> QED BY <2>1, <2>2 DEF BeLate
<1>5. CrfInTime(toTalker', now, late) /\ (running /\ toTalker' # <<>> => now <= toTalker'[1].ts + late)
  <2>1. CASE toTalker' = toTalker
    BY <1>2, <2>1
  <2>2. CASE toTalker # <<>> /\ toTalker' = Hold(toTalker)
    <3> DEFINE L == Len(toTalker)
               r == Hold(toTalker)
    <3>1. InLine(clock, toTalker, clksrc + CrfTransit, AafTransit) /\ clksrc + CrfTransit \in Nat
      BY MclkFacts
    <3>2. /\ r \in Seq(CrfPdu)
          /\ Len(r) = L
          /\ \A i \in 1 .. L : r[i].ts = toTalker[i].ts /\ r[i].due <= toTalker[i].due + Delay
      <4> DEFINE limit == clksrc + CrfTransit
      <4>1. InLine(clock, toTalker, limit, AafTransit) /\ limit \in Nat
        BY <3>1
      <4> HIDE DEF limit
      <4> QED BY <2>2, <4>1, MclkFacts, Constants, InLineHold
    <3> HIDE DEF r
    <3>3. CrfInTime(r, now, late)
      <4> SUFFICES ASSUME NEW i \in 1 .. L
                   PROVE  r[i].ts <= now + CrfTransit /\ r[i].due <= r[i].ts + late
        BY <3>2 DEF CrfInTime
      <4> DEFINE ts == toTalker[i].ts
                 due == toTalker[i].due
                 held == r[i].due
      <4>1. ts \in Nat /\ due \in Nat /\ held \in Nat
        BY <3>2, MclkFacts, PduFields
      <4>2. r[i].ts = ts /\ held <= due + Delay /\ ts <= now + CrfTransit /\ due <= ts + early
        BY <1>3, <3>2 DEF CrfInTime
      <4> HIDE DEF ts, due, held
      <4>3. held <= ts + late
        BY <1>2, <4>1, <4>2, Constants
      <4> QED BY <4>2, <4>3 DEF held
    <3>4. 1 \in 1 .. L /\ r[1].ts = toTalker[1].ts
      BY <2>2, <3>2, MclkFacts, EmptySeq, LenProperties
    <3>5. running => now <= r[1].ts + late
      BY <1>2, <2>2, <3>4
    <3> QED BY <2>2, <3>3, <3>5 DEF r
  <2> QED BY <2>1, <2>2 DEF BeLate
<1> QED BY <1>1, <1>2, <1>4, <1>5 DEF LeadInv, NotArmed, late

LEMMA InvalidDatagramLeads ==
  ASSUME MclkInv, LeadInv, InvalidDatagram
  PROVE  LeadInv'
<1>1. /\ UNCHANGED <<clock, timer, now, clksrc, toTalker, aaf>>
      /\ running = TRUE
      /\ Fault("invalid")
  BY MclkFacts DEF InvalidDatagram, RecvInvalid, listenerVars
<1> QED BY <1>1, FaultLeads DEF LeadInv, NotArmed

LEMMA LeadStep ==
  ASSUME PerCrf > 1, MclkInv, LeadInv, [Next]_vars
  PROVE  LeadInv'
<1>1. CASE UNCHANGED <<clock, timer, running, now, clksrc, toTalker, aaf, faults>>
  BY <1>1, LateSame DEF LeadInv, NotArmed
<1>2. CASE UNCHANGED vars
  BY <1>1, <1>2 DEF vars, talkerVars
<1>3. CASE Finished
  BY <1>2, <1>3 DEF Finished
<1>4. CASE Tick BY <1>4, TickLeads
<1>5. CASE SendCrf BY <1>5, SendCrfLeads
<1>6. CASE TalkerRecvCrf BY <1>6, TalkerRecvCrfLeads
<1>7. CASE TalkerTxTimeout BY <1>7, TalkerTxTimeoutLeads
<1>8. CASE ListenerRecvCrf \/ ListenerRecvAaf BY <1>8, ListenerLeads
<1>9. CASE LoseCrf BY <1>9, LoseCrfLeads
<1>10. CASE LoseAaf BY <1>10, LoseAafLeads
<1>11. CASE BeLate BY <1>11, BeLateLeads
<1>12. CASE InvalidDatagram BY <1>12, InvalidDatagramLeads
<1> QED
  BY <1>2, <1>3, <1>4, <1>5, <1>6, <1>7, <1>8, <1>9, <1>10, <1>11, <1>12 DEF Next

\* The stamp of an AAF PDU leads the expiration it was sent for by one period,
\* or by more, but then within both transit times and what process and network
\* were late (aaf_talker_tx_timeout(), aaf_talker_recv_pdu()).  The first CRF
\* PDU has to bring more than the one timestamp that arms the timer.
THEOREM StampsLead ==
  ASSUME PerCrf > 1
  PROVE  Spec => []StampLead
<1>1. MclkInv /\ LeadInv => StampLead
  <2> SUFFICES ASSUME MclkInv, LeadInv PROVE StampLead
    OBVIOUS
  <2>1. DOMAIN aaf = 1 .. Len(aaf)
    BY MclkFacts, LenProperties
  <2>2. \A i \in 1 .. Len(aaf) : Leads(aaf[i].stamp, aaf[i].expired, LeadLimit)
    BY DEF LeadInv, AafLeads
  <2> QED BY <2>1, <2>2 DEF StampLead, Leads, LeadLimit, Late
<1>2. MclkInv /\ LeadInv /\ [Next]_vars => MclkInv' /\ LeadInv'
  BY MclkStep, LeadStep
<1> QED BY <1>1, <1>2, MclkInit, LeadInit, PTL DEF Spec
-----------------------------------------------------------------------------
(***************************************************************************)
(* Late PDUs cost nothing.  As long as none is lost, both hosts count the  *)
(* periods from the first CRF timestamp on: the list of a clock has the    *)
(* next ones, and where it runs dry the clock goes on by itself to just    *)
(* the timestamps that are late.                                           *)
(***************************************************************************)

\* The first CRF timestamp, and the first expiration of the AAF talker's timer.
FirstCrf == Start + CrfTransit

FirstExpiration == FirstCrf + AafTransit

\* The scope of the theorem: the first CRF PDU brings more than the timestamp
\* that arms the timer, and the first AAF stamp can be told from those a wrap
\* away.
LookupFits == AafTransit + 1 < Wrap

\* CRF PDUs without a gap, up to the next one of the talker's.
Row(queue, next) ==
  \A i \in 1 .. Len(queue) :
    queue[i].ts + PerCrf = IF i = Len(queue) THEN next ELSE queue[i + 1].ts

FirstTs(queue, next) == IF queue = <<>> THEN next ELSE queue[1].ts

\* A clock that counts on from a time, and its list up to the next CRF PDU, or
\* beyond it with no list left.
Counts(c, from, next) ==
  /\ \A n \in Nat \ {0} : NthTimestamp(c, n) = from + n
  /\ from + Len(c.list) + 1 >= next
  /\ Len(c.list) > 0 => from + Len(c.list) + 1 = next

\* AAF PDUs for one expiration after the other.
AafRow(queue, first, last) ==
  /\ last + 1 = first + Len(queue)
  /\ \A i \in 1 .. Len(queue) : /\ queue[i].stamp = first + i - 1
                                /\ queue[i].stamp = queue[i].expired + 1
                                /\ queue[i].avtp_time = queue[i].stamp % Wrap

\* The last stamp that was checked, or the one before the first.
LastChecked == IF verified = 0 THEN FirstExpiration ELSE verified

\* Where the listener's clock counts from.
HeardFrom == IF verified = 0 THEN FirstCrf - 1 ELSE verified

\* The two hosts, when nothing was lost.
TalkerInStep ==
  /\ Row(toTalker, clksrc + CrfTransit)
  /\ timer = NotArmed => /\ FirstTs(toTalker, clksrc + CrfTransit) = FirstCrf
                         /\ aaf = <<>> /\ verified = 0
  /\ timer # NotArmed =>
       Counts(clock, timer, FirstTs(toTalker, clksrc + CrfTransit) + AafTransit)

ListenerInStep ==
  /\ Row(toListener, clksrc + CrfTransit)
  /\ heard = FreshClock =>
       FirstTs(toListener, clksrc + CrfTransit) = FirstCrf /\ verified = 0
  /\ heard # FreshClock =>
       Counts(heard, HeardFrom, FirstTs(toListener, clksrc + CrfTransit))
  /\ verified = 0 => heard.need_lookup
  /\ verified # 0 => aligned /\ heard.prev = verified

InStep ==
  /\ TalkerInStep
  /\ ListenerInStep
  /\ timer # NotArmed => AafRow(aaf, LastChecked + 1, timer)

StepInv == undisturbed => InStep

-----------------------------------------------------------------------------
\* Rows.

LEMMA RowSend ==
  ASSUME NEW queue \in Seq(CrfPdu), NEW next \in Nat, Row(queue, next),
         NEW pdu \in CrfPdu, pdu.ts = next
  PROVE  /\ Row(Append(queue, pdu), next + PerCrf)
         /\ FirstTs(Append(queue, pdu), next + PerCrf) = FirstTs(queue, next)
<1> DEFINE L == Len(queue)
           r == Append(queue, pdu)
<1>1. /\ L \in Nat
      /\ Len(r) = L + 1
      /\ \A i \in 1 .. L : r[i] = queue[i]
      /\ r[L + 1] = pdu
      /\ r # <<>>
  BY LenProperties, AppendProperties
<1>2. \A i \in 1 .. L : queue[i].ts + PerCrf = IF i = L THEN next ELSE queue[i + 1].ts
  BY DEF Row
<1>3. queue = <<>> <=> L = 0
  BY EmptySeq
<1> HIDE DEF L, r
<1>4. ASSUME NEW i \in 1 .. L + 1
      PROVE  r[i].ts + PerCrf = IF i = L + 1 THEN next + PerCrf ELSE r[i + 1].ts
  <2>1. CASE i = L + 1
    BY <1>1, <2>1
  <2>2. CASE i = L
    <3>1. i \in 1 .. L /\ i + 1 = L + 1 /\ i # L + 1
      BY <1>1, <2>2
    <3>2. r[i] = queue[i] /\ r[i + 1] = pdu /\ queue[i].ts + PerCrf = next
      BY <1>1, <1>2, <2>2, <3>1
    <3> QED BY <3>1, <3>2
  <2>3. CASE i < L
    <3>1. i \in 1 .. L /\ i + 1 \in 1 .. L /\ i # L /\ i # L + 1
      BY <1>1, <2>3
    <3>2. r[i] = queue[i] /\ r[i + 1] = queue[i + 1]
          /\ queue[i].ts + PerCrf = queue[i + 1].ts
      BY <1>1, <1>2, <3>1
    <3> QED BY <3>1, <3>2
  <2> QED BY <1>1, <2>1, <2>2, <2>3
<1>5. Row(r, next + PerCrf)
  BY <1>1, <1>4 DEF Row
<1>6. FirstTs(r, next + PerCrf) = FirstTs(queue, next)
  <2>1. CASE L = 0
    BY <1>1, <1>3, <2>1 DEF FirstTs
  <2>2. CASE L # 0
    <3>1. 1 \in 1 .. L
      BY <1>1, <2>2
    <3> QED BY <1>1, <1>3, <2>2, <3>1 DEF FirstTs
  <2> QED BY <2>1, <2>2
<1> QED BY <1>5, <1>6 DEF r

LEMMA RowTake ==
  ASSUME NEW queue \in Seq(CrfPdu), NEW next \in Nat, Row(queue, next), queue # <<>>
  PROVE  /\ Row(Tail(queue), next)
         /\ FirstTs(queue, next) = Head(queue).ts
         /\ FirstTs(Tail(queue), next) = Head(queue).ts + PerCrf
<1> DEFINE L == Len(queue)
           t == Tail(queue)
<1>1. /\ L \in Nat \ {0}
      /\ t \in Seq(CrfPdu)
      /\ Len(t) = L - 1
      /\ \A i \in 1 .. L - 1 : t[i] = queue[i + 1]
      /\ Head(queue) = queue[1]
  BY EmptySeq, LenProperties, HeadTailProperties
<1>2. \A i \in 1 .. L : queue[i].ts + PerCrf = IF i = L THEN next ELSE queue[i + 1].ts
  BY DEF Row
<1>3. t = <<>> <=> L = 1
  <2> HIDE DEF L, t
  <2>1. t = <<>> <=> Len(t) = 0
    BY <1>1, EmptySeq
  <2> QED BY <1>1, <2>1
<1> HIDE DEF L, t
<1>4. ASSUME NEW i \in 1 .. L - 1
      PROVE  t[i].ts + PerCrf = IF i = L - 1 THEN next ELSE t[i + 1].ts
  <2>1. i + 1 \in 1 .. L /\ t[i] = queue[i + 1]
    BY <1>1
  <2>2. CASE i = L - 1
    <3>1. i + 1 = L
      BY <1>1, <2>2
    <3> QED BY <1>2, <2>1, <2>2, <3>1
  <2>3. CASE i # L - 1
    <3>1. i + 1 # L /\ i + 1 \in 1 .. L - 1
      BY <1>1, <2>3
    <3>2. t[i + 1] = queue[i + 1 + 1]
      BY <1>1, <3>1
    <3> QED BY <1>2, <2>1, <2>3, <3>1, <3>2
  <2> QED BY <2>2, <2>3
<1>5. FirstTs(t, next) = queue[1].ts + PerCrf
  <2>1. 1 \in 1 .. L
    BY <1>1
  <2>2. CASE L = 1
    BY <1>2, <1>3, <2>1, <2>2 DEF FirstTs
  <2>3. CASE L # 1
    <3>1. 1 \in 1 .. L - 1
      BY <1>1, <2>3
    <3>2. t[1] = queue[1 + 1]
      BY <1>1, <3>1
    <3> QED BY <1>2, <1>3, <2>1, <2>3, <3>2 DEF FirstTs
  <2> QED BY <2>2, <2>3
<1> QED BY <1>1, <1>4, <1>5 DEF Row, FirstTs, t

\* Rows are made of timestamps alone.
LEMMA RowHold ==
  ASSUME NEW queue \in Seq(CrfPdu), NEW next \in Nat, Row(queue, next), queue # <<>>
  PROVE  /\ Row(Hold(queue), next)
         /\ FirstTs(Hold(queue), next) = FirstTs(queue, next)
<1> DEFINE L == Len(queue)
           late == [queue[1] EXCEPT !.due = queue[1].due + Delay]
           r == Hold(queue)
<1>1. L \in Nat \ {0} /\ \A i \in 1 .. L : queue[i] \in CrfPdu
  BY LenProperties, ElementOfSeq, EmptySeq
<1>2. 1 \in 1 .. L /\ queue[1] \in CrfPdu
  BY <1>1
<1>3. late \in CrfPdu /\ late.ts = queue[1].ts
  <2>1. PICK ts \in Nat, due \in Nat : queue[1] = [ts |-> ts, due |-> due]
    BY <1>2 DEF CrfPdu
  <2>2. late = [ts |-> ts, due |-> due + Delay] /\ due + Delay \in Nat
    BY <2>1, Constants
  <2> HIDE DEF late
  <2> QED BY <2>1, <2>2 DEF CrfPdu
<1>4. r = [queue EXCEPT ![1] = late]
  BY DEF Hold
<1> HIDE DEF late, r
<1>5. /\ r \in Seq(CrfPdu)
      /\ Len(r) = L
      /\ \A i \in 1 .. L : r[i] = IF i = 1 THEN late ELSE queue[i]
  BY <1>2, <1>3, <1>4, ExceptSeq
<1>6. \A i \in 1 .. L : r[i].ts = queue[i].ts
  BY <1>3, <1>5
<1>7. r # <<>>
  BY <1>1, <1>5, EmptySeq
<1>8. Row(r, next)
  <2> SUFFICES ASSUME NEW i \in 1 .. L
               PROVE  r[i].ts + PerCrf = IF i = L THEN next ELSE r[i + 1].ts
    BY <1>5 DEF Row
  <2>1. queue[i].ts + PerCrf = IF i = L THEN next ELSE queue[i + 1].ts
    BY DEF Row
  <2>2. i # L => i + 1 \in 1 .. L
    BY <1>1
  <2> QED BY <1>6, <2>1, <2>2
<1>9. FirstTs(r, next) = FirstTs(queue, next)
  BY <1>2, <1>6, <1>7 DEF FirstTs
<1> QED BY <1>8, <1>9 DEF r

LEMMA FirstTsType ==
  ASSUME NEW queue \in Seq(CrfPdu), NEW next \in Nat
  PROVE  FirstTs(queue, next) \in Nat
<1>1. CASE queue = <<>>
  BY <1>1 DEF FirstTs
<1>2. CASE queue # <<>>
  <2>1. 1 \in 1 .. Len(queue)
    BY <1>2, LenProperties, EmptySeq
  <2> QED BY <1>2, <2>1, PduFields DEF FirstTs
<1> QED BY <1>1, <1>2

LEMMA AafRowTake ==
  ASSUME NEW queue \in Seq(AafPdu), NEW first \in Nat, NEW last \in Nat,
         AafRow(queue, first, last), queue # <<>>
  PROVE  /\ AafRow(Tail(queue), first + 1, last)
         /\ Head(queue).stamp = first
         /\ Head(queue).avtp_time = first % Wrap
<1> DEFINE L == Len(queue)
           t == Tail(queue)
<1>1. /\ L \in Nat \ {0}
      /\ Len(t) = L - 1
      /\ \A i \in 1 .. L - 1 : t[i] = queue[i + 1]
      /\ Head(queue) = queue[1]
  BY EmptySeq, LenProperties, HeadTailProperties
<1>2. /\ last + 1 = first + L
      /\ \A i \in 1 .. L : /\ queue[i].stamp = first + i - 1
                           /\ queue[i].stamp = queue[i].expired + 1
                           /\ queue[i].avtp_time = queue[i].stamp % Wrap
  BY DEF AafRow
<1> HIDE DEF L, t
<1>3. ASSUME NEW i \in 1 .. L - 1
      PROVE  /\ t[i].stamp = first + 1 + i - 1
             /\ t[i].stamp = t[i].expired + 1
             /\ t[i].avtp_time = t[i].stamp % Wrap
  <2>1. i + 1 \in 1 .. L /\ t[i] = queue[i + 1] /\ first + (i + 1) - 1 = first + 1 + i - 1
    BY <1>1
  <2> QED BY <1>2, <2>1
<1>4. last + 1 = first + 1 + (L - 1)
  BY <1>1, <1>2
<1>5. 1 \in 1 .. L /\ first + 1 - 1 = first
  BY <1>1
<1>6. queue[1].stamp = first /\ queue[1].avtp_time = first % Wrap
  BY <1>2, <1>5
<1> QED BY <1>1, <1>3, <1>4, <1>6 DEF AafRow, t

LEMMA AafRowSent ==
  ASSUME NEW queue \in Seq(AafPdu), NEW first \in Nat, NEW last \in Nat,
         AafRow(queue, first, last),
         NEW sent \in Seq(AafPdu),
         \A i \in 1 .. Len(sent) : /\ sent[i].stamp = last + i
                                   /\ sent[i].expired = last + i - 1
                                   /\ sent[i].avtp_time = sent[i].stamp % Wrap
  PROVE  AafRow(queue \o sent, first, last + Len(sent))
<1> DEFINE L == Len(queue)
           n == Len(sent)
           r == queue \o sent
<1>1. /\ L \in Nat /\ n \in Nat
      /\ Len(r) = L + n
      /\ \A i \in 1 .. L + n : r[i] = IF i <= L THEN queue[i] ELSE sent[i - L]
  BY LenProperties, ConcatProperties
<1>2. /\ last + 1 = first + L
      /\ \A i \in 1 .. L : /\ queue[i].stamp = first + i - 1
                           /\ queue[i].stamp = queue[i].expired + 1
                           /\ queue[i].avtp_time = queue[i].stamp % Wrap
  BY DEF AafRow
<1>3. \A i \in 1 .. n : /\ sent[i].stamp = last + i
                        /\ sent[i].expired = last + i - 1
                        /\ sent[i].avtp_time = sent[i].stamp % Wrap
  OBVIOUS
<1>0. last + 1 = first + L
  BY <1>2
<1> HIDE DEF L, n, r
<1>4. ASSUME NEW i \in 1 .. L + n
      PROVE  /\ r[i].stamp = first + i - 1
             /\ r[i].stamp = r[i].expired + 1
             /\ r[i].avtp_time = r[i].stamp % Wrap
  <2>1. CASE i <= L
    BY <1>1, <1>2, <2>1
  <2>2. CASE ~(i <= L)
    <3> DEFINE k == i - L
    <3>1. k \in 1 .. n /\ r[i] = sent[k] /\ i = L + k
      BY <1>1, <2>2
    <3> HIDE DEF k
    <3>2. /\ r[i].stamp = last + k
          /\ r[i].expired = last + k - 1
          /\ r[i].avtp_time = r[i].stamp % Wrap
      BY <1>3, <3>1
    <3>3. last + k = first + i - 1 /\ last + k = (last + k - 1) + 1
      <4>1. k \in Nat /\ L \in Nat /\ i = L + k
        BY <1>1, <3>1
      <4>2. \A a, b, c, d \in Nat : a + 1 = b + c => /\ a + d = b + (c + d) - 1
                                                   /\ a + d = (a + d - 1) + 1
        OBVIOUS
      <4> QED BY <1>0, <4>1, <4>2
    <3>4. r[i].stamp = first + i - 1
      BY <3>2, <3>3, Zenon
    <3>5. r[i].stamp = r[i].expired + 1
      BY <3>2, <3>3, Zenon
    <3> QED BY <3>2, <3>4, <3>5, Zenon
  <2> QED BY <2>1, <2>2
<1>5. last + n + 1 = first + (L + n)
  <2>1. \A l, m \in Nat : last + 1 = first + l => last + m + 1 = first + (l + m)
    OBVIOUS
  <2>2. L \in Nat /\ n \in Nat
    BY <1>1
  <2> QED BY <1>0, <2>1, <2>2
<1> QED BY <1>1, <1>4, <1>5 DEF AafRow, r, n

\* Rows are made of stamps alone.
LEMMA AafRowHold ==
  ASSUME NEW queue \in Seq(AafPdu), NEW first, NEW last, AafRow(queue, first, last),
         queue # <<>>
  PROVE  AafRow(Hold(queue), first, last)
<1> DEFINE L == Len(queue)
           late == [queue[1] EXCEPT !.due = queue[1].due + Delay]
           r == Hold(queue)
<1>1. L \in Nat \ {0} /\ \A i \in 1 .. L : queue[i] \in AafPdu
  BY LenProperties, ElementOfSeq, EmptySeq
<1>2. 1 \in 1 .. L /\ queue[1] \in AafPdu
  BY <1>1
<1>3. /\ late.stamp = queue[1].stamp /\ late.expired = queue[1].expired
      /\ late.avtp_time = queue[1].avtp_time
  BY <1>2 DEF AafPdu
<1>4. r = [queue EXCEPT ![1] = late]
  BY DEF Hold
<1> HIDE DEF late
<1>5. Len(r) = L /\ \A i \in 1 .. L : r[i] = IF i = 1 THEN late ELSE queue[i]
  BY <1>2, <1>4, LenProperties
<1> HIDE DEF r
<1>6. \A i \in 1 .. L : /\ r[i].stamp = queue[i].stamp
                        /\ r[i].expired = queue[i].expired
                        /\ r[i].avtp_time = queue[i].avtp_time
  BY <1>3, <1>5
<1> QED BY <1>5, <1>6 DEF AafRow, r

-----------------------------------------------------------------------------
\* Clocks that count.

LEMMA AdvancedLength ==
  ASSUME NEW c \in Clock, NEW n \in Nat \ {0}
  PROVE  Len(Advanced(c, n).list) = IF n < Len(c.list) THEN Len(c.list) - n ELSE 0
<1> DEFINE L == Len(c.list)
<1>1. L \in Nat /\ \A i \in 1 .. L : c.list[i] \in Nat
  BY ClockFields
<1>2. \A i \in n + 1 .. L : c.list[i] \in Nat
  BY <1>1
<1>3. n + 1 \in Int /\ L \in Int
  BY <1>1
<1>4. Len(SubSeq(c.list, n + 1, L)) = IF n + 1 <= L THEN L - (n + 1) + 1 ELSE 0
  <2> HIDE DEF L
  <2> QED BY <1>2, <1>3, SubSeqProperties
<1>5. Advanced(c, n).list = SubSeq(c.list, n + 1, L)
  BY DEF Advanced
<1> DEFINE m == Len(SubSeq(c.list, n + 1, L))
<1> HIDE DEF L, m
<1>6. m = IF n < L THEN L - n ELSE 0
  BY <1>1, <1>4 DEF m
<1> QED BY <1>5, <1>6 DEF m, L

\* A clock goes on counting when timestamps are taken off it ...
LEMMA AdvancedCounts ==
  ASSUME NEW c \in Clock, Increases(c), NEW from \in Nat, NEW next \in Nat,
         Counts(c, from, next), NEW k \in Nat \ {0}
  PROVE  Counts(Advanced(c, k), from + k, next)
<1> DEFINE L == Len(c.list)
           a == Advanced(c, k)
           A == Len(a.list)
<1>1. L \in Nat /\ A = IF k < L THEN L - k ELSE 0
  BY ClockFields, AdvancedLength
<1>2. /\ \A n \in Nat \ {0} : NthTimestamp(c, n) = from + n
      /\ from + L + 1 >= next
      /\ L > 0 => from + L + 1 = next
  BY DEF Counts
<1>3. \A n \in Nat \ {0} : NthTimestamp(a, n) = NthTimestamp(c, k + n)
  BY AdvancedProperties
<1> HIDE DEF L, a, A
<1>4. ASSUME NEW n \in Nat \ {0}
      PROVE  NthTimestamp(a, n) = from + k + n
  <2>1. k + n \in Nat \ {0} /\ from + (k + n) = from + k + n
    OBVIOUS
  <2> QED BY <1>2, <1>3, <2>1
<1>5. /\ from + k + A + 1 >= next
      /\ A > 0 => from + k + A + 1 = next
  <2>1. from + L + 1 >= next /\ (L > 0 => from + L + 1 = next)
    BY <1>2
  <2> QED BY <1>1, <2>1
<1> QED BY <1>4, <1>5 DEF Counts, a, A

\* ... and when the next PDU is taken in: what it says of the time the clock has
\* counted past, the clock has said already.
LEMMA RecoveredCounts ==
  ASSUME NEW c \in Clock, NEW ts_crf \in Nat, NEW mtt \in Nat,
         Increases(c), Below(c, ts_crf + mtt),
         NEW from \in Nat, Counts(c, from, ts_crf + mtt)
  PROVE  Counts(Recovered(c, ts_crf, mtt), from, ts_crf + mtt + PerCrf)
<1> DEFINE L == Len(c.list)
           ts == ts_crf + mtt
           r == Recovered(c, ts_crf, mtt)
           R == Len(r.list)
<1>1. L \in Nat /\ (\A i \in 1 .. L : c.list[i] \in Nat) /\ c.prev \in Nat /\ ts \in Nat
  BY ClockFields
<1>2. /\ \A n \in Nat \ {0} : NthTimestamp(c, n) = from + n
      /\ from + L + 1 >= ts
      /\ L > 0 => from + L + 1 = ts
  BY DEF Counts
<1>3. /\ r \in Clock
      /\ c.prev < ts => R = L + PerCrf
      /\ c.prev >= ts => \A i \in L + 1 .. R : r.list[i] = c.prev + i - L
      /\ R >= L
  BY RecoveredProperties
<1>4. \A n \in Nat \ {0} :
        NthTimestamp(r, n) = IF c.prev >= ts \/ n <= L THEN NthTimestamp(c, n)
                             ELSE ts + n - L - 1
  BY NthRecovered
<1>5. L = 0 => c.prev = from
  <2>1. 1 \in Nat \ {0} /\ (L = 0 => NthTimestamp(c, 1) = c.prev + 1)
    <3>1. L = 0 => Base(c) = c.prev
      BY DEF Base
    <3>2. L = 0 => NthTimestamp(c, 1) = Base(c) + (1 - L)
      BY NthProperties
    <3> QED BY <1>1, <3>1, <3>2
  <2>2. NthTimestamp(c, 1) = from + 1
    BY <1>2, <2>1
  <2> QED BY <1>1, <2>1, <2>2
<1>6. L > 0 => c.prev < ts
  <2>1. L > 0 => 1 \in 1 .. L
    BY <1>1
  <2>2. L > 0 => c.list[1] > c.prev /\ c.list[1] < ts /\ c.list[1] \in Nat
    BY <1>1, <2>1 DEF Increases, Below
  <2> QED BY <1>1, <2>2
<1>7. c.prev >= ts => R = IF c.prev + 1 < ts + PerCrf THEN ts + PerCrf - (c.prev + 1) ELSE 0
  <2>1. SUFFICES ASSUME c.prev >= ts
                 PROVE  R = IF c.prev + 1 < ts + PerCrf THEN ts + PerCrf - (c.prev + 1) ELSE 0
    OBVIOUS
  <2> DEFINE more == From(c.prev + 1, ts)
  <2>2. r.list = c.list \o more
    <3>1. ~(ts > c.prev)
      BY <1>1, <2>1
    <3>2. r = [c EXCEPT !.list = c.list \o more]
      BY <3>1 DEF Recovered
    <3> HIDE DEF r, more
    <3> QED BY <3>2 DEF Clock
  <2>3. c.prev + 1 \in Nat /\ ts <= c.prev + 1
    BY <1>1, <2>1
  <2>4. /\ more \in Seq(Nat)
        /\ Len(more) = IF c.prev + 1 < ts + PerCrf THEN ts + PerCrf - (c.prev + 1) ELSE 0
    <3> HIDE DEF ts
    <3> QED BY <1>1, <2>3, FromProperties
  <2>5. c.list \in Seq(Nat)
    BY ClockFields
  <2> HIDE DEF more
  <2>6. Len(r.list) = L + Len(more)
    BY <2>2, <2>4, <2>5, ConcatProperties
  <2>7. L = 0
    BY <1>1, <1>6, <2>1
  <2>8. Len(more) \in Nat
    BY <2>4, LenProperties
  <2> HIDE DEF ts, L
  <2> QED BY <2>4, <2>6, <2>7, <2>8
<1> HIDE DEF L, ts, r, R
<1>8. ASSUME NEW n \in Nat \ {0}
      PROVE  NthTimestamp(r, n) = from + n
  <2>1. NthTimestamp(c, n) = from + n
    BY <1>2
  <2>2. CASE c.prev >= ts \/ n <= L
    BY <1>4, <2>1, <2>2
  <2>3. CASE ~(c.prev >= ts \/ n <= L)
    <3>1. NthTimestamp(r, n) = ts + n - L - 1
      BY <1>4, <2>3
    <3>2. from + L + 1 = ts
      <4>1. CASE L > 0
        BY <1>2, <4>1
      <4>2. CASE L = 0
        BY <1>1, <1>2, <1>5, <2>3, <4>2
      <4> QED BY <1>1, <4>1, <4>2
    <3> QED BY <1>1, <3>1, <3>2
  <2> QED BY <2>2, <2>3
<1>9. /\ from + R + 1 >= ts + PerCrf
      /\ R > 0 => from + R + 1 = ts + PerCrf
  <2>1. from + L + 1 >= ts /\ (L > 0 => from + L + 1 = ts) /\ PerCrf \in Nat \ {0}
    BY <1>2, Constants
  <2>2. CASE c.prev < ts
    <3>1. R = L + PerCrf
      BY <1>3, <2>2
    <3>2. from + L + 1 = ts
      BY <1>1, <1>5, <2>1, <2>2
    <3> QED BY <1>1, <2>1, <3>1, <3>2
  <2>3. CASE c.prev >= ts
    <3>1. c.prev = from
      BY <1>1, <1>5, <1>6, <2>3
    <3> QED BY <1>1, <1>7, <2>1, <2>3, <3>1
  <2> QED BY <1>1, <2>2, <2>3
<1> QED BY <1>8, <1>9 DEF Counts, r, R, ts

\* The first PDU starts it.
LEMMA FreshCounts ==
  ASSUME NEW ts_crf \in Nat, NEW mtt \in Nat, ts_crf + mtt > 0
  PROVE  LET r == Recovered(FreshClock, ts_crf, mtt)
         IN /\ Counts(r, ts_crf + mtt - 1, ts_crf + mtt + PerCrf)
            /\ r # FreshClock
<1> DEFINE c == FreshClock
           ts == ts_crf + mtt
           r == Recovered(c, ts_crf, mtt)
<1>1. c \in Clock /\ c.list = <<>> /\ c.prev = 0 /\ Len(c.list) = 0
  BY FreshClockProperties, EmptySeq
<1>2. Increases(c) /\ Below(c, ts)
  BY <1>1 DEF Increases, Below
<1>3. /\ c.prev < ts
      /\ Len(r.list) = Len(c.list) + PerCrf
  BY <1>1, <1>2, RecoveredProperties
<1>4. \A n \in Nat \ {0} :
        NthTimestamp(r, n) = IF c.prev >= ts \/ n <= Len(c.list) THEN NthTimestamp(c, n)
                             ELSE ts + n - Len(c.list) - 1
  BY <1>1, <1>2, NthRecovered
<1>5. ts \in Nat /\ ts > 0
  OBVIOUS
<1> HIDE DEF c, ts, r
<1>6. \A n \in Nat \ {0} : NthTimestamp(r, n) = ts - 1 + n
  <2> TAKE n \in Nat \ {0}
  <2>1. ~(c.prev >= ts \/ n <= Len(c.list))
    BY <1>1, <1>3, <1>5
  <2>2. NthTimestamp(r, n) = ts + n - 0 - 1
    BY <1>1, <1>4, <2>1
  <2> QED BY <1>5, <2>2
<1>7. Len(r.list) = PerCrf
  BY <1>1, <1>3, Constants
<1>8. ts - 1 + PerCrf + 1 = ts + PerCrf
  BY <1>5, Constants
<1>9. r # c
  BY <1>1, <1>7, Constants
<1> QED BY <1>5, <1>6, <1>7, <1>8, <1>9 DEF Counts, c, ts, r

\* Two times less than a wrap apart do not have the same low part.
LEMMA LowPartsDiffer ==
  ASSUME NEW a \in Nat, NEW b \in Nat, a < b, b < a + Wrap
  PROVE  a % Wrap # b % Wrap
<1> DEFINE qa == a \div Wrap
           qb == b \div Wrap
           ra == a % Wrap
           rb == b % Wrap
<1>1. Wrap \in Nat \ {0}
  BY Constants
<1>2. /\ qa \in Int /\ qb \in Int /\ ra \in Int /\ rb \in Int
      /\ a = Wrap * qa + ra /\ b = Wrap * qb + rb
  BY <1>1, DivMod
<1> HIDE DEF qa, qb, ra, rb
<1>3. SUFFICES ASSUME ra = rb PROVE FALSE
  BY DEF ra, rb
<1>4. b - a = Wrap * (qb - qa)
  BY <1>1, <1>2, <1>3
<1> DEFINE d == qb - qa
<1>5. d \in Int /\ Wrap * d > 0 /\ Wrap * d < Wrap
  <2>1. b - a > 0 /\ b - a < Wrap
    BY <1>1
  <2>2. d \in Int /\ b - a = Wrap * d
    BY <1>2, <1>4
  <2> HIDE DEF d
  <2> QED BY <2>1, <2>2
<1> HIDE DEF d
<1>6. d >= 1 => Wrap * d >= Wrap
  BY <1>1, <1>5
<1>7. d <= 0 => Wrap * d <= 0
  BY <1>1, <1>5
<1>8. d >= 1 \/ d <= 0
  BY <1>5
<1> QED BY <1>1, <1>5, <1>6, <1>7, <1>8

\* A look-up finds a timestamp less than a wrap ahead where it is.
LEMMA LookupCounts ==
  ASSUME NEW c \in Clock, NEW from \in Nat,
         \A n \in Nat \ {0} : NthTimestamp(c, n) = from + n,
         NEW k \in 1 .. Wrap
  PROVE  LookupCalls(c, (from + k) % Wrap) = k
<1> DEFINE S == {n \in 1 .. Len(c.list) + Wrap :
                   NthTimestamp(c, n) % Wrap = (from + k) % Wrap}
<1>1. Len(c.list) \in Nat /\ Wrap \in Nat \ {0}
  BY ClockFields, Constants
<1>2. k \in S
  <2>1. k \in 1 .. Len(c.list) + Wrap /\ k \in Nat \ {0}
    BY <1>1
  <2>2. NthTimestamp(c, k) = from + k
    BY <2>1
  <2> QED BY <2>1, <2>2
<1>3. ASSUME NEW n \in S
      PROVE  k <= n
  <2>1. n \in Nat \ {0} /\ n \in Nat /\ k \in Nat
    BY <1>1
  <2>2. (from + n) % Wrap = (from + k) % Wrap
    BY <2>1
  <2> SUFFICES ASSUME n < k PROVE FALSE
    BY <2>1
  <2>3. from + n \in Nat /\ from + k \in Nat /\ from + n < from + k
    BY <2>1
  <2>4. from + k < from + n + Wrap
    BY <1>1, <2>1
  <2> QED BY <2>2, <2>3, <2>4, LowPartsDiffer
<1>4. LookupCalls(c, (from + k) % Wrap) = Min(S)
  BY DEF LookupCalls
<1>5. S \subseteq Nat
  BY <1>1
<1> HIDE DEF S
<1>6. Min(S) = CHOOSE x \in S : \A y \in S : x <= y
  BY DEF Min
<1>7. Min(S) \in S /\ \A y \in S : Min(S) <= y
  BY <1>2, <1>3, <1>6
<1>8. Min(S) <= k /\ k <= Min(S)
  BY <1>2, <1>3, <1>7
<1>9. Min(S) \in Nat /\ k \in Nat
  BY <1>2, <1>5, <1>7
<1> QED BY <1>4, <1>8, <1>9

\* The clock of which the first timestamp is taken to arm the timer.
LEMMA ArmedCounts ==
  ASSUME NEW c \in Clock, NEW from \in Nat, NEW next \in Nat, Counts(c, from, next),
         Len(c.list) > 1, NEW d \in Clock, d.list = Tail(c.list)
  PROVE  Counts(d, from + 1, next) /\ Head(c.list) = from + 1
<1> DEFINE L == Len(c.list)
           D == Len(d.list)
<1>1. c.list \in Seq(Nat) /\ L \in Nat /\ L > 1
  BY ClockFields
<1>2. c.list # <<>>
  BY <1>1, EmptySeq
<1>3. D = L - 1 /\ (\A i \in 1 .. L - 1 : d.list[i] = c.list[i + 1]) /\ Head(c.list) = c.list[1]
  <2>1. /\ Len(Tail(c.list)) = Len(c.list) - 1
        /\ \A i \in 1 .. Len(Tail(c.list)) : Tail(c.list)[i] = c.list[i + 1]
        /\ Head(c.list) = c.list[1]
    BY <1>1, <1>2, HeadTailProperties
  <2> QED BY <2>1
<1>4. /\ \A n \in Nat \ {0} : NthTimestamp(c, n) = from + n
      /\ from + L + 1 = next
  BY <1>1 DEF Counts
<1>5. \A i \in 1 .. L : c.list[i] = from + i
  <2> TAKE i \in 1 .. L
  <2>1. i \in Nat \ {0} /\ i <= L
    BY <1>1
  <2>2. NthTimestamp(c, i) = c.list[i]
    BY <2>1, NthProperties
  <2> QED BY <1>4, <2>1, <2>2
<1>6. \A i \in 1 .. D : d.list[i] = from + i + 1
  <2> TAKE i \in 1 .. D
  <2>1. i \in 1 .. L - 1 /\ i + 1 \in 1 .. L
    BY <1>1, <1>3
  <2>2. d.list[i] = c.list[i + 1] /\ c.list[i + 1] = from + (i + 1)
    BY <1>3, <1>5, <2>1
  <2> QED BY <2>1, <2>2
<1>7. D = L - 1 /\ D \in Nat /\ L \in Nat /\ L > 1
  BY <1>1, <1>3
<1> HIDE DEF L, D
<1>8. Base(d) = from + L
  <2>1. D \in 1 .. D /\ D # 0
    BY <1>7
  <2>2. Base(d) = d.list[D]
    BY <2>1 DEF Base, Last, D
  <2>3. d.list[D] = from + D + 1
    BY <1>6, <2>1
  <2>4. from + D + 1 = from + L
    BY <1>7
  <2> QED BY <2>2, <2>3, <2>4
<1>9. ASSUME NEW n \in Nat \ {0}
      PROVE  NthTimestamp(d, n) = from + 1 + n
  <2>1. /\ n <= D => NthTimestamp(d, n) = d.list[n]
        /\ n > D => NthTimestamp(d, n) = Base(d) + (n - D)
    BY NthProperties DEF D
  <2>2. CASE n <= D
    <3>1. n \in 1 .. D
      BY <1>7, <2>2
    <3>2. d.list[n] = from + n + 1
      BY <1>6, <3>1
    <3>3. from + n + 1 = from + 1 + n
      OBVIOUS
    <3> QED BY <2>1, <2>2, <3>2, <3>3
  <2>3. CASE n > D
    <3>1. NthTimestamp(d, n) = from + L + (n - D)
      BY <1>8, <2>1, <2>3
    <3>2. from + L + (n - D) = from + 1 + n
      BY <1>7
    <3> QED BY <3>1, <3>2
  <2> QED BY <1>7, <2>2, <2>3
<1>10. from + 1 + D + 1 = next
  <2>1. from + L + 1 = next
    BY <1>4
  <2> QED BY <1>7, <2>1
<1>11. Head(c.list) = from + 1
  <2>1. 1 \in 1 .. L
    BY <1>7
  <2> QED BY <1>3, <1>5, <2>1
<1>12. /\ from + 1 + Len(d.list) + 1 >= next
       /\ from + 1 + Len(d.list) + 1 = next
  <2>1. next >= next
    OBVIOUS
  <2> QED BY <1>10, <2>1, Zenon DEF D
<1>13. Counts(d, from + 1, next)
  BY <1>9, <1>12 DEF Counts
<1> QED BY <1>11, <1>13

-----------------------------------------------------------------------------
\* The steps.

LEMMA FirstType ==
  /\ FirstCrf \in Nat /\ FirstCrf > 0
  /\ FirstExpiration \in Nat /\ FirstExpiration > 0
  /\ FirstExpiration = FirstCrf + AafTransit
BY Constants DEF FirstCrf, FirstExpiration

LEMMA StepInit == Init => StepInv
<1> SUFFICES ASSUME Init PROVE InStep
  BY DEF StepInv
<1>1. /\ clock = FreshClock /\ heard = FreshClock /\ timer = NotArmed
      /\ clksrc = Start /\ toTalker = <<>> /\ toListener = <<>>
      /\ aaf = <<>> /\ verified = 0
  BY DEF Init, MclkTalkerInit, MclkListenerInit
<1>2. /\ Row(<<>>, clksrc + CrfTransit)
      /\ FirstTs(<<>>, clksrc + CrfTransit) = FirstCrf
  BY <1>1 DEF Row, FirstTs, FirstCrf
<1>3. FreshClock.need_lookup
  BY DEF FreshClock
<1> QED BY <1>1, <1>2, <1>3 DEF InStep, TalkerInStep, ListenerInStep

\* The steps that move nothing.
LEMMA StepsSame ==
  ASSUME StepInv,
         UNCHANGED <<clock, timer, heard, aligned, clksrc, toTalker, toListener, aaf,
                     verified, undisturbed>>
  PROVE  StepInv'
BY DEF StepInv, InStep, TalkerInStep, ListenerInStep, Row, FirstTs, Counts, AafRow,
       LastChecked, HeardFrom

\* crf-talker sends the next PDU to both.
LEMMA SendCrfSteps ==
  ASSUME MclkInv, InStep, SendCrf
  PROVE  InStep'
<1> DEFINE pdu == [ts |-> clksrc + CrfTransit, due |-> clksrc + CrfTransit]
           next == clksrc + CrfTransit
<1>1. /\ UNCHANGED <<clock, timer, heard, aligned, aaf, verified>>
      /\ toTalker' = Append(toTalker, pdu)
      /\ toListener' = Append(toListener, pdu)
      /\ clksrc' = clksrc + PerCrf
  BY DEF SendCrf, talkerVars, listenerVars
<1>2. next \in Nat /\ pdu \in CrfPdu /\ pdu.ts = next
  BY MclkFacts DEF CrfPdu
<1>3. clksrc' + CrfTransit = next + PerCrf
  BY <1>1, Numbers, Constants
<1>4. next = clksrc + CrfTransit
  OBVIOUS
<1> HIDE DEF pdu, next
<1>5. Row(toTalker, next) /\ Row(toListener, next)
  BY <1>4 DEF InStep, TalkerInStep, ListenerInStep
<1>6. /\ Row(toTalker', next + PerCrf)
      /\ FirstTs(toTalker', next + PerCrf) = FirstTs(toTalker, next)
  BY <1>1, <1>2, <1>5, MclkFacts, RowSend
<1>7. /\ Row(toListener', next + PerCrf)
      /\ FirstTs(toListener', next + PerCrf) = FirstTs(toListener, next)
  BY <1>1, <1>2, <1>5, MclkFacts, RowSend
<1>8. TalkerInStep'
  BY <1>1, <1>3, <1>4, <1>6 DEF InStep, TalkerInStep
<1>9. HeardFrom' = HeardFrom /\ LastChecked' = LastChecked
  BY <1>1 DEF HeardFrom, LastChecked
<1>10. ListenerInStep'
  BY <1>1, <1>3, <1>4, <1>7, <1>9 DEF InStep, ListenerInStep
<1> QED BY <1>1, <1>8, <1>9, <1>10 DEF InStep

\* The AAF talker takes a PDU in: the first one arms its timer.
LEMMA TalkerRecvCrfSteps ==
  ASSUME PerCrf > 1, MclkInv, InStep, TalkerRecvCrf
  PROVE  InStep'
<1> DEFINE ts == Head(toTalker).ts
           t == Tail(toTalker)
           r == Recovered(clock, ts, AafTransit)
           next == clksrc + CrfTransit
<1>1. /\ UNCHANGED <<heard, aligned, clksrc, toListener, aaf, verified>>
      /\ toTalker # <<>>
      /\ toTalker' = t
      /\ IF timer = NotArmed THEN Armed(r) ELSE clock' = r /\ UNCHANGED timer
  BY DEF TalkerRecvCrf, RecvCrf, listenerVars
<1>2. next \in Nat /\ InLine(clock, toTalker, next, AafTransit)
  BY MclkFacts
<1>3. /\ ts \in Nat
      /\ Below(clock, ts + AafTransit)
      /\ r \in Clock
  BY <1>1, <1>2, MclkFacts, Constants, InLineTake
<1>4. Increases(clock) /\ clock \in Clock
  BY MclkFacts DEF InLine
<1>5. /\ Row(t, next)
      /\ FirstTs(toTalker, next) = ts
      /\ FirstTs(t, next) = ts + PerCrf
  <2>1. Row(toTalker, next)
    BY DEF InStep, TalkerInStep
  <2> HIDE DEF next
  <2> QED BY <1>1, <1>2, <2>1, MclkFacts, RowTake
<1>6. r = Recovered(clock, ts, AafTransit) /\ AafTransit \in Nat /\ PerCrf \in Nat
  BY Constants
<1>7. ListenerInStep' /\ LastChecked' = LastChecked
  BY <1>1 DEF InStep, ListenerInStep, HeardFrom, LastChecked
<1> DEFINE from == ts + AafTransit
<1>8. from \in Nat /\ from + PerCrf \in Nat
      /\ ts + PerCrf + AafTransit = ts + AafTransit + PerCrf
  BY <1>3, <1>6
<1>9. CASE timer = NotArmed
  <2>1. clock = FreshClock
    BY <1>9, MclkFacts
  <2>2. ts = FirstCrf /\ aaf = <<>> /\ verified = 0
    BY <1>5, <1>9 DEF InStep, TalkerInStep
  <2>3. from = FirstExpiration /\ from > 0
    BY <2>2, FirstType
  <2> HIDE DEF ts, r
  <2>4. Counts(r, from - 1, from + PerCrf)
    BY <1>3, <1>6, <2>1, <2>3, FreshCounts
  <2>5. from - 1 \in Nat
    BY <1>8, <2>3
  <2> HIDE DEF from
  <2>6. Len(r.list) > 1
    <3>1. Len(r.list) \in Nat
      BY <1>3, ClockFields
    <3>2. /\ from - 1 + Len(r.list) + 1 >= from + PerCrf
      BY <2>4 DEF Counts
    <3> QED BY <1>6, <1>8, <3>1, <3>2
  <2>7. timer' = Head(r.list) /\ clock' = [r EXCEPT !.list = Tail(r.list)]
    BY <1>1, <1>9 DEF Armed
  <2>8. r.list \in Seq(Nat) /\ r.list # <<>>
    BY <1>3, <2>6, ClockFields, EmptySeq
  <2>9. clock' \in Clock /\ clock'.list = Tail(r.list)
    <3>1. PICK l \in Seq(Nat), p \in Nat, b \in BOOLEAN :
            r = [list |-> l, prev |-> p, need_lookup |-> b]
      BY <1>3 DEF Clock
    <3>2. Tail(r.list) \in Seq(Nat)
      BY <2>8, HeadTailProperties
    <3>3. clock' = [list |-> Tail(r.list), prev |-> p, need_lookup |-> b]
      BY <2>7, <3>1
    <3> QED BY <3>1, <3>2, <3>3 DEF Clock
  <2>10. Counts(clock', from, from + PerCrf) /\ Head(r.list) = from
    <3>1. from - 1 + 1 = from
      BY <1>8
    <3>2. /\ Counts(clock', from - 1 + 1, from + PerCrf)
          /\ Head(r.list) = from - 1 + 1
      BY <1>3, <1>8, <2>4, <2>5, <2>6, <2>9, ArmedCounts
    <3> QED BY <3>1, <3>2
  <2>11. timer' = from /\ timer' # NotArmed
    BY <2>3, <2>7, <2>10 DEF NotArmed
  <2>12. TalkerInStep'
    <3>1. clksrc' + CrfTransit = next
      BY <1>1
    <3>2. FirstTs(toTalker', next) + AafTransit = from + PerCrf
      BY <1>1, <1>5, <1>8 DEF from
    <3> QED BY <1>1, <1>5, <2>10, <2>11, <3>1, <3>2 DEF TalkerInStep
  <2>13. AafRow(aaf', LastChecked' + 1, timer')
    <3>1. LastChecked' + 1 = from + 1 /\ Len(<<>>) = 0 /\ 1 .. 0 = {}
      BY <1>7, <2>2, <2>3, EmptySeq DEF LastChecked
    <3>2. from + 1 = from + 1 + 0
      BY <1>8
    <3> QED BY <1>1, <2>2, <2>11, <3>1, <3>2 DEF AafRow
  <2> QED BY <1>7, <2>12, <2>13 DEF InStep
<1>10. CASE timer # NotArmed
  <2>1. clock' = r /\ timer' = timer /\ timer \in Nat
    BY <1>1, <1>10, MclkFacts
  <2>2. Counts(clock, timer, from)
    BY <1>5, <1>10 DEF InStep, TalkerInStep
  <2> HIDE DEF ts, r
  <2>3. Counts(r, timer, from + PerCrf)
    BY <1>3, <1>4, <1>6, <2>1, <2>2, RecoveredCounts
  <2>4. TalkerInStep'
    <3>1. clksrc' + CrfTransit = next
      BY <1>1
    <3>2. FirstTs(toTalker', next) + AafTransit = from + PerCrf
      BY <1>1, <1>5, <1>8 DEF from
    <3> QED BY <1>1, <1>5, <1>10, <2>1, <2>3, <3>1, <3>2 DEF TalkerInStep
  <2>5. AafRow(aaf', LastChecked' + 1, timer')
    BY <1>1, <1>7, <1>10, <2>1 DEF InStep
  <2> QED BY <1>7, <2>4, <2>5 DEF InStep
<1> QED BY <1>9, <1>10

\* It sends: a PDU per expiration, with the stamp that comes next.
LEMMA TalkerTxTimeoutSteps ==
  ASSUME MclkInv, InStep, TalkerTxTimeout
  PROVE  InStep'
<1> DEFINE n == Expirations(now)
           sent == Sent(now)
           next == clksrc + CrfTransit
<1>1. /\ UNCHANGED <<heard, aligned, clksrc, toTalker, toListener, verified>>
      /\ timer # NotArmed
      /\ timer' = timer + n /\ timer' = now + 1
      /\ clock' = Advanced(clock, n)
      /\ aaf' = aaf \o sent
      /\ n \in Nat \ {0}
      /\ sent \in Seq(AafPdu)
      /\ Len(sent) = n
      /\ \A i \in 1 .. n : /\ sent[i].stamp = NthTimestamp(clock, i)
                           /\ sent[i].expired = timer + i - 1
  BY TxTimeoutFacts
<1>2. \A i \in 1 .. n : sent[i].avtp_time = NthTimestamp(clock, i) % Wrap
  BY DEF Sent, Truncated
<1>3. /\ FirstTs(toTalker, next) + AafTransit \in Nat /\ timer \in Nat /\ clock \in Clock
      /\ Increases(clock)
  <2>1. next \in Nat /\ Increases(clock)
    BY MclkFacts DEF InLine
  <2>2. FirstTs(toTalker, next) \in Nat
    BY <2>1, MclkFacts, FirstTsType
  <2> QED BY <2>1, <2>2, MclkFacts, Constants
<1>4. Counts(clock, timer, FirstTs(toTalker, next) + AafTransit)
  BY <1>1 DEF InStep, TalkerInStep
<1>5. next' = next
  BY <1>1
<1> DEFINE until == FirstTs(toTalker, next) + AafTransit
<1>6. until = FirstTs(toTalker, next) + AafTransit
  OBVIOUS
<1> HIDE DEF n, sent, next, until
<1>7. Counts(clock', timer', until)
  BY <1>1, <1>3, <1>4, <1>6, AdvancedCounts
<1>8. timer' # NotArmed
  <2>1. now \in Nat
    BY MclkFacts
  <2> QED BY <1>1, <2>1 DEF NotArmed
<1>9. TalkerInStep'
  BY <1>1, <1>5, <1>6, <1>7, <1>8 DEF InStep, TalkerInStep, next
<1>10. ListenerInStep' /\ LastChecked' = LastChecked
  BY <1>1 DEF InStep, ListenerInStep, HeardFrom, LastChecked
<1>11. AafRow(aaf', LastChecked + 1, timer')
  <2>1. AafRow(aaf, LastChecked + 1, timer)
    BY <1>1 DEF InStep
  <2>2. LastChecked + 1 \in Nat
    BY MclkFacts, FirstType DEF LastChecked
  <2>3. \A i \in 1 .. Len(sent) : /\ sent[i].stamp = timer + i
                                  /\ sent[i].expired = timer + i - 1
                                  /\ sent[i].avtp_time = sent[i].stamp % Wrap
    <3> TAKE i \in 1 .. Len(sent)
    <3>1. i \in 1 .. n /\ i \in Nat \ {0}
      BY <1>1
    <3>2. NthTimestamp(clock, i) = timer + i
      BY <1>4, <3>1 DEF Counts
    <3> QED BY <1>1, <1>2, <3>1, <3>2
  <2>4. AafRow(aaf \o sent, LastChecked + 1, timer + Len(sent))
    BY <1>1, <1>3, <2>1, <2>2, <2>3, MclkFacts, AafRowSent
  <2> QED BY <1>1, <2>4
<1> QED BY <1>9, <1>10, <1>11 DEF InStep

\* The listener takes a PDU in: the first one starts its clock.
LEMMA ListenerRecvCrfSteps ==
  ASSUME MclkInv, InStep, ListenerRecvCrf
  PROVE  InStep'
<1> DEFINE ts == Head(toListener).ts
           t == Tail(toListener)
           r == Recovered(heard, ts, 0)
           next == clksrc + CrfTransit
<1>1. /\ UNCHANGED <<clock, timer, aligned, clksrc, toTalker, aaf, verified>>
      /\ toListener # <<>>
      /\ toListener' = t
      /\ heard' = r
  BY DEF ListenerRecvCrf, HandleCrf, talkerVars
<1>2. next \in Nat /\ InLine(heard, toListener, next, 0) /\ 0 \in Nat
  BY MclkFacts
<1>3. /\ ts \in Nat /\ ts > 0
      /\ Below(heard, ts + 0)
      /\ r \in Clock
  BY <1>1, <1>2, MclkFacts, InLineTake
<1>4. Increases(heard) /\ heard \in Clock
  BY MclkFacts DEF InLine
<1>5. /\ Row(t, next)
      /\ FirstTs(toListener, next) = ts
      /\ FirstTs(t, next) = ts + PerCrf
  <2>1. Row(toListener, next)
    BY DEF InStep, ListenerInStep
  <2> HIDE DEF next
  <2> QED BY <1>1, <1>2, <2>1, MclkFacts, RowTake
<1>6. /\ r = Recovered(heard, ts, 0) /\ ts + 0 = ts
      /\ ts + PerCrf \in Nat
      /\ r.need_lookup = heard.need_lookup /\ r.prev = heard.prev
  <2>1. ts + 0 = ts /\ ts + PerCrf \in Nat
    BY <1>3, Constants
  <2> QED BY <1>2, <1>3, <1>4, <2>1, RecoveredProperties
<1>7. HeardFrom' = HeardFrom /\ LastChecked' = LastChecked /\ HeardFrom \in Nat
  <2>1. FirstCrf - 1 \in Nat
    BY FirstType
  <2> QED BY <1>1, <2>1, MclkFacts DEF HeardFrom, LastChecked
<1>8. r # FreshClock /\ Counts(r, HeardFrom, ts + PerCrf)
  <2>1. CASE heard = FreshClock
    <3>1. ts = FirstCrf /\ verified = 0
      BY <1>5, <2>1 DEF InStep, ListenerInStep
    <3>2. HeardFrom = ts - 1
      BY <3>1 DEF HeardFrom
    <3> HIDE DEF ts, r
    <3>3. ts + 0 > 0
      BY <1>3
    <3>4. /\ Counts(r, ts + 0 - 1, ts + 0 + PerCrf)
          /\ r # FreshClock
      BY <1>2, <1>3, <1>6, <2>1, <3>3, FreshCounts
    <3>5. ts + 0 - 1 = ts - 1 /\ ts + 0 + PerCrf = ts + PerCrf
      BY <1>3, Constants
    <3> QED BY <3>2, <3>4, <3>5
  <2>2. CASE heard # FreshClock
    <3>1. Counts(heard, HeardFrom, ts)
      BY <1>5, <2>2 DEF InStep, ListenerInStep
    <3> HIDE DEF ts, r
    <3>2. Counts(heard, HeardFrom, ts + 0)
      BY <1>6, <3>1
    <3>3. Counts(r, HeardFrom, ts + 0 + PerCrf)
      BY <1>2, <1>3, <1>4, <1>6, <1>7, <3>2, RecoveredCounts
    <3>4. Counts(r, HeardFrom, ts + PerCrf)
      BY <1>6, <3>3
    <3>5. r # FreshClock
      <4>1. SUFFICES ASSUME r = FreshClock PROVE FALSE
        OBVIOUS
      <4>2. r.list = <<>> /\ r.prev = 0 /\ Len(r.list) = 0
        BY <4>1, FreshClockProperties, EmptySeq
      <4>3. Len(heard.list) = 0
        <5>1. Len(r.list) >= Len(heard.list) /\ Len(heard.list) \in Nat
          BY <1>2, <1>3, <1>4, <1>6, RecoveredProperties, ClockFields
        <5> QED BY <4>2, <5>1
      <4>4. heard.prev = 0 /\ heard.prev < ts + 0
        BY <1>3, <1>6, <4>2
      <4>5. Len(r.list) = Len(heard.list) + PerCrf
        BY <1>2, <1>3, <1>4, <1>6, <4>4, RecoveredProperties
      <4> QED BY <4>2, <4>3, <4>5, Constants
    <3> QED BY <3>4, <3>5
  <2> QED BY <2>1, <2>2
<1>9. ListenerInStep'
  <2>1. clksrc' + CrfTransit = next
    BY <1>1
  <2>2. verified = 0 => heard.need_lookup
    BY DEF InStep, ListenerInStep
  <2>3. verified # 0 => aligned /\ heard.prev = verified
    BY DEF InStep, ListenerInStep
  <2> HIDE DEF r, ts, t, next
  <2> QED BY <1>1, <1>5, <1>6, <1>7, <1>8, <2>1, <2>2, <2>3 DEF ListenerInStep
<1>10. TalkerInStep'
  BY <1>1 DEF InStep, TalkerInStep
<1>11. timer' # NotArmed => AafRow(aaf', LastChecked' + 1, timer')
  BY <1>1, <1>7 DEF InStep
<1> QED BY <1>9, <1>10, <1>11 DEF InStep

\* It checks an AAF PDU: the look-up of the first one finds it, and each further
\* one is the next timestamp.
LEMMA ListenerRecvAafSteps ==
  ASSUME LookupFits, MclkInv, InStep, ListenerRecvAaf, undisturbed'
  PROVE  InStep'
<1> DEFINE avtp_time == Head(aaf).avtp_time
           stamp == Head(aaf).stamp
           k == Calls(avtp_time)
           after == Advanced(heard, k)
           looked == ~heard.need_lookup /\ after.need_lookup
           until == FirstTs(toListener, clksrc + CrfTransit)
<1>1. /\ UNCHANGED <<clock, timer, clksrc, toTalker, toListener>>
      /\ aaf # <<>>
      /\ heard # FreshClock
      /\ heard' = [after EXCEPT !.need_lookup = looked]
      /\ aligned' = (after.prev % Wrap = avtp_time)
      /\ aaf' = Tail(aaf)
      /\ verified' = stamp
  BY DEF ListenerRecvAaf, HandleAaf, SearchForEver, Blind, talkerVars
<1>2. timer # NotArmed /\ timer \in Nat
  BY <1>1, MclkFacts DEF InStep, TalkerInStep
<1>3. LastChecked + 1 \in Nat /\ LastChecked + 1 > 0
  BY MclkFacts, FirstType DEF LastChecked
<1>4. /\ AafRow(Tail(aaf), LastChecked + 1 + 1, timer)
      /\ stamp = LastChecked + 1
      /\ avtp_time = (LastChecked + 1) % Wrap
  <2>1. AafRow(aaf, LastChecked + 1, timer)
    BY <1>2 DEF InStep
  <2> QED BY <1>1, <1>2, <1>3, <2>1, MclkFacts, AafRowTake
<1>5. HeardFrom \in Nat /\ until \in Nat /\ heard \in Clock /\ Increases(heard)
      /\ Counts(heard, HeardFrom, until)
  <2>1. FirstCrf - 1 \in Nat
    BY FirstType
  <2>2. HeardFrom \in Nat
    BY <2>1, MclkFacts DEF HeardFrom
  <2>3. until \in Nat
    BY MclkFacts, FirstTsType
  <2> QED BY <1>1, <2>2, <2>3, MclkFacts DEF InLine, InStep, ListenerInStep
<1> HIDE DEF until
<1>6. k \in Nat \ {0} /\ HeardFrom + k = stamp
  <2>1. CASE verified = 0
    <3> DEFINE m == AafTransit + 2
    <3>1. m \in 1 .. Wrap /\ m \in Nat \ {0}
      BY Constants DEF LookupFits
    <3>2. HeardFrom = FirstCrf - 1 /\ LastChecked = FirstCrf + AafTransit
      BY <2>1, FirstType DEF HeardFrom, LastChecked
    <3>3. HeardFrom + m = LastChecked + 1
      BY <3>2, FirstType, Constants
    <3> HIDE DEF m
    <3>4. avtp_time = (HeardFrom + m) % Wrap
      BY <1>4, <3>3
    <3>5. \A n \in Nat \ {0} : NthTimestamp(heard, n) = HeardFrom + n
      BY <1>5 DEF Counts
    <3>6. LookupCalls(heard, avtp_time) = m
      BY <1>5, <3>1, <3>4, <3>5, LookupCounts
    <3>7. heard.need_lookup
      BY <2>1 DEF InStep, ListenerInStep
    <3> QED BY <1>4, <3>1, <3>3, <3>6, <3>7 DEF Calls
  <2>2. CASE verified # 0
    <3>1. HeardFrom = verified /\ LastChecked = verified
      BY <2>2 DEF HeardFrom, LastChecked
    <3>2. 1 \in 1 .. Wrap /\ 1 \in Nat \ {0}
      BY Constants
    <3>3. avtp_time = (HeardFrom + 1) % Wrap
      BY <1>4, <3>1
    <3>4. \A n \in Nat \ {0} : NthTimestamp(heard, n) = HeardFrom + n
      BY <1>5 DEF Counts
    <3>5. LookupCalls(heard, avtp_time) = 1
      BY <1>5, <3>2, <3>3, <3>4, LookupCounts
    <3>6. k = 1
      BY <3>5 DEF Calls
    <3> QED BY <1>4, <3>1, <3>2, <3>6
  <2> QED BY <2>1, <2>2
<1>7. stamp \in Nat /\ stamp > 0
  BY <1>3, <1>4
<1> HIDE DEF k, stamp, avtp_time
<1>8. /\ after \in Clock
      /\ after.prev = NthTimestamp(heard, k)
      /\ Counts(after, HeardFrom + k, until)
  BY <1>5, <1>6, AdvancedProperties, AdvancedCounts
<1>9. after.prev = stamp
  BY <1>5, <1>6, <1>8 DEF Counts
<1> HIDE DEF after, looked
<1>10. heard'.list = after.list /\ heard'.prev = after.prev
  BY <1>1, <1>8 DEF Clock
<1>11. Counts(heard', stamp, until)
  BY <1>6, <1>8, <1>10 DEF Counts, NthTimestamp
<1>12. heard' # FreshClock
  BY <1>7, <1>9, <1>10, FreshClockProperties
<1>13. aligned' /\ heard'.prev = verified' /\ verified' # 0
  <2>1. after.prev % Wrap = avtp_time
    BY <1>4, <1>9
  <2>2. aligned'
    BY <1>1, <2>1, Zenon
  <2>3. verified' # 0
    BY <1>1, <1>7
  <2> QED BY <1>1, <1>9, <1>10, <2>2, <2>3
<1>14. HeardFrom' = stamp /\ LastChecked' = stamp
  BY <1>1, <1>7 DEF HeardFrom, LastChecked
<1>15. ListenerInStep'
  <2>1. clksrc' + CrfTransit = clksrc + CrfTransit
    BY <1>1
  <2>2. Row(toListener, clksrc + CrfTransit)
    BY DEF InStep, ListenerInStep
  <2> QED BY <1>1, <1>11, <1>12, <1>13, <1>14, <2>1, <2>2 DEF ListenerInStep, until
<1>16. TalkerInStep'
  BY <1>1, <1>2 DEF InStep, TalkerInStep
<1>17. AafRow(aaf', LastChecked' + 1, timer')
  BY <1>1, <1>4, <1>14
<1> QED BY <1>15, <1>16, <1>17 DEF InStep

\* A late PDU has the timestamp it had.
LEMMA BeLateSteps ==
  ASSUME MclkInv, InStep, BeLate
  PROVE  InStep'
<1> DEFINE next == clksrc + CrfTransit
<1>1. UNCHANGED <<clock, timer, heard, aligned, clksrc, verified>>
  BY DEF BeLate, talkerVars, listenerVars
<1>2. next \in Nat /\ next' = next /\ HeardFrom' = HeardFrom /\ LastChecked' = LastChecked
  BY <1>1, MclkFacts DEF HeardFrom, LastChecked
<1>3. /\ Row(toTalker', next) /\ FirstTs(toTalker', next) = FirstTs(toTalker, next)
      /\ Row(toListener', next) /\ FirstTs(toListener', next) = FirstTs(toListener, next)
      /\ timer # NotArmed => AafRow(aaf', LastChecked + 1, timer)
      /\ timer = NotArmed => aaf' = <<>>
  <2>1. /\ Row(toTalker, next) /\ Row(toListener, next)
        /\ timer # NotArmed => AafRow(aaf, LastChecked + 1, timer)
        /\ timer = NotArmed => aaf = <<>>
    BY DEF InStep, TalkerInStep, ListenerInStep
  <2> HIDE DEF next
  <2>2. CASE toTalker # <<>> /\ toTalker' = Hold(toTalker) /\ UNCHANGED <<toListener, aaf>>
    BY <1>2, <2>1, <2>2, MclkFacts, RowHold
  <2>3. CASE toListener # <<>> /\ toListener' = Hold(toListener) /\ UNCHANGED <<toTalker, aaf>>
    BY <1>2, <2>1, <2>3, MclkFacts, RowHold
  <2>4. CASE aaf # <<>> /\ aaf' = Hold(aaf) /\ UNCHANGED <<toTalker, toListener>>
    BY <2>1, <2>4, MclkFacts, AafRowHold
  <2> QED BY <2>2, <2>3, <2>4 DEF BeLate
<1>4. TalkerInStep'
  BY <1>1, <1>2, <1>3 DEF InStep, TalkerInStep
<1>5. ListenerInStep'
  BY <1>1, <1>2, <1>3 DEF InStep, ListenerInStep
<1> QED BY <1>1, <1>2, <1>3, <1>4, <1>5 DEF InStep

LEMMA StepStep ==
  ASSUME PerCrf > 1, LookupFits, MclkInv, StepInv, [Next]_vars
  PROVE  StepInv'
<1>1. ASSUME UNCHANGED <<clock, timer, heard, aligned, clksrc, toTalker, toListener, aaf,
                         verified, undisturbed>>
      PROVE  StepInv'
  BY <1>1, StepsSame
<1>2. CASE UNCHANGED vars
  BY <1>1, <1>2 DEF vars, talkerVars, listenerVars
<1>3. CASE Finished
  BY <1>1, <1>3 DEF Finished, vars, talkerVars, listenerVars
<1>4. CASE Tick
  BY <1>1, <1>4 DEF Tick, talkerVars, listenerVars
<1>5. CASE InvalidDatagram
  BY <1>1, <1>5 DEF InvalidDatagram, RecvInvalid, listenerVars
<1>6. CASE LoseCrf \/ LoseAaf
  BY <1>6 DEF LoseCrf, LoseAaf, StepInv
<1>7. CASE SendCrf
  BY <1>7, SendCrfSteps DEF StepInv, SendCrf
<1>8. CASE TalkerRecvCrf
  BY <1>8, TalkerRecvCrfSteps DEF StepInv, TalkerRecvCrf
<1>9. CASE TalkerTxTimeout
  BY <1>9, TalkerTxTimeoutSteps DEF StepInv, TalkerTxTimeout
<1>10. CASE ListenerRecvCrf
  BY <1>10, ListenerRecvCrfSteps DEF StepInv, ListenerRecvCrf
<1>11. CASE ListenerRecvAaf
  BY <1>11, ListenerRecvAafSteps DEF StepInv, ListenerRecvAaf
<1>12. CASE BeLate
  BY <1>12, BeLateSteps DEF StepInv, BeLate
<1> QED BY <1>2, <1>3, <1>4, <1>5, <1>6, <1>7, <1>8, <1>9, <1>10, <1>11, <1>12 DEF Next

\* Late PDUs cost nothing: as long as none is lost, and the listener has heard CRF
\* before AAF, every AAF PDU is stamped one period after its expiration and found
\* on the listener's clock where it is (crf-listener.c, lines 626-636).
THEOREM LatenessCostsNothing ==
  ASSUME PerCrf > 1, LookupFits
  PROVE  Spec => []LatenessHarmless
<1>1. MclkInv /\ StepInv => LatenessHarmless
  <2> SUFFICES ASSUME MclkInv, InStep
               PROVE  /\ \A i \in DOMAIN aaf : aaf[i].stamp = aaf[i].expired + 1
                      /\ verified # 0 => aligned /\ heard.prev = verified
    BY DEF LatenessHarmless, StepInv
  <2>1. DOMAIN aaf = 1 .. Len(aaf)
    BY MclkFacts, LenProperties
  <2>2. CASE timer = NotArmed
    <3>1. aaf = <<>> /\ 1 .. 0 = {} /\ Len(<<>>) = 0
      BY <2>2, EmptySeq DEF InStep, TalkerInStep
    <3> QED BY <2>1, <3>1 DEF InStep, ListenerInStep
  <2>3. CASE timer # NotArmed
    BY <2>1, <2>3 DEF InStep, ListenerInStep, AafRow
  <2> QED BY <2>2, <2>3
<1>2. MclkInv /\ StepInv /\ [Next]_vars => StepInv'
  BY StepStep
<1> QED BY <1>1, <1>2, MclkInit, MclkStep, StepInit, PTL DEF Spec
=============================================================================
