-------------------------- MODULE VideoPath_proofs --------------------------
(***************************************************************************)
(* Theorems about the CVF and IEC 61883 streams, for every size of a       *)
(* buffer, a NAL unit and a packet, range of the data block counter,       *)
(* transit time and number of losses and faults and every input: what the  *)
(* talkers make of their input, and what the listeners write of it.        *)
(***************************************************************************)
EXTENDS VideoPath, SequenceTheorems, ModuloLemmas, FiniteSetTheorems

\* What the assumptions on the constants say of their types.
LEMMA Constants ==
  /\ TsLen \in Nat \ {0}
  /\ Dbcs \in Nat \ {0}
  /\ DbcRange = Dbcs
  /\ Wrap \in Nat \ {0}
  /\ TransitTime \in Nat
  /\ DataLen \in Nat \ {0}
  /\ BufferSize \in Nat
  /\ BufferSize > 2 * DataLen
  /\ SubHeader \in Nat
  /\ DataLens \in Nat \ {0}
  /\ DataLen < DataLens
  /\ TsLen < DataLens
<1>1. DataLen \in Nat \ {0} /\ SubHeader \in Nat /\ DataLen + SubHeader < DataLens
  BY CvfAssumption, ListenerAssumption, VideoAssumption
<1>2. TsLen \in Nat \ {0} /\ TsLen + 12 < DataLens
  BY IecAssumption, VideoAssumption DEF CipHeaders
<1>3. DataLens \in Nat \ {0}
  BY DEF DataLens
<1> QED BY <1>1, <1>2, <1>3, CvfAssumption, IecAssumption, ListenerAssumption, WrapAssumption,
           VideoAssumption

\* Every set of natural numbers but the empty one has a least element,
LEMMA LeastNatural ==
  ASSUME NEW S \in SUBSET Nat, S # {}
  PROVE  \E m \in S : \A k \in S : m <= k
<1> DEFINE R == OpToRel(<, Nat)
<1>1. IsWellFoundedOn(R, Nat)
  BY NatLessThanWellFounded
<1>2. \A x, y \in Nat : <<y, x>> \in R <=> y < x
  BY DEF OpToRel
<1> HIDE DEF R
<1>3. PICK m \in S : \A k \in S : <<k, m>> \notin R
  BY <1>1, WFMin
<1>4. m \in Nat /\ \A k \in S : k \in Nat /\ ~(k < m)
  BY <1>2, <1>3
<1>5. \A k \in S : m <= k
  BY <1>4
<1> QED BY <1>5

\* and, if it is bounded, a greatest one.
LEMMA GreatestNatural ==
  ASSUME NEW S \in SUBSET Nat, S # {}, NEW n \in Nat, \A k \in S : k <= n
  PROVE  \E m \in S : \A k \in S : k <= m
<1> DEFINE T == {n - k : k \in S}
<1>1. T \in SUBSET Nat /\ T # {}
  <2>1. \A k \in S : n - k \in Nat
    OBVIOUS
  <2> QED BY <2>1
<1>2. PICK m \in T : \A k \in T : m <= k
  BY <1>1, LeastNatural
<1>3. PICK g \in S : m = n - g
  BY <1>2
<1>4. \A k \in S : k \in Nat /\ n - k \in T
  OBVIOUS
<1>5. \A k \in S : k \in Nat /\ n - g <= n - k
  BY <1>2, <1>3, <1>4
<1>6. g \in Nat /\ \A k \in S : k <= g
  BY <1>3, <1>5
<1> QED BY <1>6

-----------------------------------------------------------------------------
\* The search for start codes.

\* start_code_position(): one turn of the search, and the function it computes.
Turn(s, f, o) ==
  IF o >= Len(s) - 2 THEN NotFound
  ELSE CASE s[o + 3] = 0 -> f[o + 1]
         [] s[o + 3] = 1 /\ s[o + 1] = 0 /\ s[o + 2] = 0 -> o
         [] OTHER -> f[o + 3]

Searches(s, f) == f = [o \in Nat |-> Turn(s, f, o)]

\* A start code at offset o.
Code(s, o) == o + 2 < Len(s) /\ s[o + 1] = 0 /\ s[o + 2] = 0 /\ s[o + 3] = 1

\* The first of them from offset o on.
FirstCode(s, o, r) ==
  IF r = NotFound
  THEN \A i \in Nat : o <= i => ~Code(s, i)
  ELSE r \in Nat /\ o <= r /\ Code(s, r) /\ \A i \in Nat : o <= i /\ i < r => ~Code(s, i)

LEMMA PositionIsSearch ==
  ASSUME NEW o \in Nat
  PROVE  StartCodePosition(o) = (CHOOSE f : Searches(buffer, f))[o]
BY DEF StartCodePosition, Searches, Turn

LEMMA FirstCodeExists ==
  ASSUME NEW s \in Seq(Byte), NEW o \in Nat
  PROVE  \E r \in Nat \cup {NotFound} : FirstCode(s, o, r)
<1> DEFINE S == {i \in Nat : o <= i /\ Code(s, i)}
<1>1. CASE S = {}
  BY <1>1 DEF FirstCode
<1>2. CASE S # {}
  <2>1. PICK m \in S : \A k \in S : m <= k
    BY <1>2, LeastNatural
  <2>2. m \in Nat /\ m # NotFound /\ o <= m /\ Code(s, m)
    BY <2>1 DEF NotFound
  <2>3. ASSUME NEW i \in Nat, o <= i, i < m PROVE ~Code(s, i)
    <3>1. i \notin S
      BY <2>1, <2>2, <2>3
    <3> QED BY <3>1, <2>3
  <2> QED BY <2>2, <2>3 DEF FirstCode
<1> QED BY <1>1, <1>2

LEMMA FirstCodeUnique ==
  ASSUME NEW s, NEW o \in Nat, NEW r, NEW t, FirstCode(s, o, r), FirstCode(s, o, t)
  PROVE  r = t
<1>1. CASE r = NotFound
  BY <1>1 DEF FirstCode
<1>2. CASE t = NotFound
  BY <1>2 DEF FirstCode
<1>3. CASE r # NotFound /\ t # NotFound
  <2>1. /\ r \in Nat /\ o <= r /\ Code(s, r) /\ \A i \in Nat : o <= i /\ i < r => ~Code(s, i)
        /\ t \in Nat /\ o <= t /\ Code(s, t) /\ \A i \in Nat : o <= i /\ i < t => ~Code(s, i)
    BY <1>3 DEF FirstCode
  <2>2. ~(r < t) /\ ~(t < r)
    BY <2>1
  <2> QED BY <2>1, <2>2
<1> QED BY <1>1, <1>2, <1>3

\* A turn that goes on from where no start code has been passed is a right one.
LEMMA TurnIsRight ==
  ASSUME NEW s \in Seq(Byte), NEW f, NEW o \in Nat,
         o < Len(s) - 2 => FirstCode(s, o + 1, f[o + 1]) /\ FirstCode(s, o + 3, f[o + 3])
  PROVE  FirstCode(s, o, Turn(s, f, o))
<1>1. Len(s) \in Nat
  OBVIOUS
<1>2. CASE o >= Len(s) - 2
  <2>1. \A i \in Nat : o <= i => ~Code(s, i)
    BY <1>1, <1>2 DEF Code
  <2> QED BY <1>2, <2>1 DEF Turn, FirstCode
<1>3. CASE o < Len(s) - 2
  <2>1. ~(o >= Len(s) - 2)
    BY <1>1, <1>3
  <2>2. s[o + 1] \in Byte /\ s[o + 2] \in Byte /\ s[o + 3] \in Byte
    <3>1. o + 1 \in 1 .. Len(s) /\ o + 2 \in 1 .. Len(s) /\ o + 3 \in 1 .. Len(s)
      BY <1>1, <1>3
    <3> QED BY <3>1, ElementOfSeq
  <2>3. CASE s[o + 3] = 0
    <3>1. Turn(s, f, o) = f[o + 1]
      BY <2>1, <2>3 DEF Turn
    <3>2. ~Code(s, o)
      BY <2>3 DEF Code
    <3>3. \A i \in Nat : o <= i => i = o \/ o + 1 <= i
      OBVIOUS
    <3>4. \A r \in Nat : o + 1 <= r => o <= r
      OBVIOUS
    <3> QED BY <1>3, <3>1, <3>2, <3>3, <3>4 DEF FirstCode
  <2>4. CASE s[o + 3] = 1 /\ s[o + 1] = 0 /\ s[o + 2] = 0
    <3>1. Turn(s, f, o) = o
      BY <2>1, <2>4 DEF Turn
    <3>2. Code(s, o) /\ o # NotFound
      BY <1>1, <1>3, <2>4 DEF Code, NotFound
    <3>3. \A i \in Nat : ~(o <= i /\ i < o)
      OBVIOUS
    <3> QED BY <3>1, <3>2, <3>3 DEF FirstCode
  <2>5. CASE s[o + 3] # 0 /\ ~(s[o + 3] = 1 /\ s[o + 1] = 0 /\ s[o + 2] = 0)
    <3>1. Turn(s, f, o) = f[o + 3]
      BY <2>1, <2>5 DEF Turn
    <3>2. ~Code(s, o)
      BY <2>5 DEF Code
    <3>3. ~Code(s, o + 1) /\ ~Code(s, o + 2)
      <4>1. o + 1 + 2 = o + 3 /\ o + 2 + 1 = o + 3
        OBVIOUS
      <4> QED BY <2>5, <4>1 DEF Code
    <3>4. \A i \in Nat : o <= i => i = o \/ i = o + 1 \/ i = o + 2 \/ o + 3 <= i
      OBVIOUS
    <3>5. \A r \in Nat : o + 3 <= r => o <= r
      OBVIOUS
    <3> QED BY <1>3, <3>1, <3>2, <3>3, <3>4, <3>5 DEF FirstCode
  <2> QED BY <2>3, <2>4, <2>5
<1> QED BY <1>1, <1>2, <1>3

LEMMA SearchExists ==
  ASSUME NEW s \in Seq(Byte)
  PROVE  \E f : Searches(s, f)
<1> DEFINE F == [o \in Nat |-> CHOOSE r : FirstCode(s, o, r)]
<1>1. \A o \in Nat : FirstCode(s, o, F[o])
  BY FirstCodeExists
<1> HIDE DEF F
<1>2. ASSUME NEW o \in Nat PROVE F[o] = Turn(s, F, o)
  <2>1. o + 1 \in Nat /\ o + 3 \in Nat
    OBVIOUS
  <2>2. FirstCode(s, o, Turn(s, F, o))
    BY <1>1, <2>1, TurnIsRight
  <2> QED BY <1>1, <2>2, FirstCodeUnique
<1>3. F = [o \in Nat |-> F[o]]
  BY DEF F
<1>4. Searches(s, F)
  BY <1>2, <1>3 DEF Searches
<1> QED BY <1>4

\* Every such search finds the first start code: where it did not, it would
\* not further on either, and at the end it does.
LEMMA SearchFinds ==
  ASSUME NEW s \in Seq(Byte), NEW f, Searches(s, f), NEW o \in Nat
  PROVE  FirstCode(s, o, f[o])
<1> DEFINE S == {i \in Nat : ~FirstCode(s, i, f[i])}
<1>1. Len(s) \in Nat
  OBVIOUS
<1>2. \A i \in Nat : f[i] = Turn(s, f, i)
  BY DEF Searches
<1>3. \A i \in Nat :
        i \in S => i < Len(s) - 2 /\ (i + 1 \in S \/ i + 3 \in S)
  <2> SUFFICES ASSUME NEW i \in Nat, ~(i < Len(s) - 2 /\ (i + 1 \in S \/ i + 3 \in S))
               PROVE  FirstCode(s, i, f[i])
    OBVIOUS
  <2>1. i + 1 \in Nat /\ i + 3 \in Nat
    OBVIOUS
  <2>2. FirstCode(s, i, Turn(s, f, i))
    BY <2>1, TurnIsRight
  <2> QED BY <1>2, <2>2
<1>4. ASSUME S # {} PROVE FALSE
  <2>1. S \in SUBSET Nat /\ \A i \in S : i <= Len(s)
    BY <1>1, <1>3
  <2>2. PICK m \in S : \A k \in S : k <= m
    BY <1>1, <1>4, <2>1, GreatestNatural
  <2>3. m \in Nat /\ (m + 1 \in S \/ m + 3 \in S)
    BY <1>3, <2>2
  <2>4. m + 1 <= m \/ m + 3 <= m
    BY <2>2, <2>3
  <2> QED BY <2>3, <2>4
<1> QED BY <1>4

\* What start_code_position() returns.
LEMMA PositionIsFirst ==
  ASSUME buffer \in Seq(Byte), NEW o \in Nat
  PROVE  FirstCode(buffer, o, StartCodePosition(o))
<1>1. Searches(buffer, CHOOSE f : Searches(buffer, f))
  BY SearchExists
<1> QED BY <1>1, PositionIsSearch, SearchFinds

\* The part of a sequence behind its first a elements and up to the b-th.
LEMMA Window ==
  ASSUME NEW S, NEW s \in Seq(S), NEW a \in Nat, NEW b \in Nat, a <= b, b <= Len(s)
  PROVE  /\ SubSeq(s, a + 1, b) \in Seq(S)
         /\ Len(SubSeq(s, a + 1, b)) = b - a
         /\ \A i \in 1 .. b - a : SubSeq(s, a + 1, b)[i] = s[a + i]
<1>1. Len(s) \in Nat
  OBVIOUS
<1>2. \A i \in a + 1 .. b : s[i] \in S
  BY <1>1, ElementOfSeq
<1>3. \A i \in 1 .. b - a : a + 1 + i - 1 = a + i
  OBVIOUS
<1>4. CASE a = b
  <2>1. SubSeq(s, a + 1, b) = <<>>
    BY <1>1, <1>4, SubSeqProperties
  <2> QED BY <1>4, <2>1
<1>5. CASE a < b
  BY <1>1, <1>2, <1>3, <1>5, SubSeqProperties
<1> QED BY <1>4, <1>5

\* All but the last element.
LEMMA FrontPieces ==
  ASSUME NEW S, NEW s \in Seq(S), s # <<>>
  PROVE  /\ Front(s) \in Seq(S) /\ Len(Front(s)) = Len(s) - 1
         /\ \A i \in 1 .. Len(s) - 1 : Front(s)[i] = s[i]
<1>1. Len(s) \in Nat /\ Len(s) >= 1
  BY EmptySeq
<1>2. PICK b \in Nat : b = Len(s) - 1
  BY <1>1
<1>3. 0 <= b /\ b <= Len(s) /\ 0 + 1 = 1 /\ b - 0 = b /\ \A i \in 1 .. b : 0 + i = i
  BY <1>1, <1>2
<1>4. /\ SubSeq(s, 0 + 1, b) \in Seq(S) /\ Len(SubSeq(s, 0 + 1, b)) = b - 0
      /\ \A i \in 1 .. b - 0 : SubSeq(s, 0 + 1, b)[i] = s[0 + i]
  BY <1>3, Window
<1>5. Front(s) = SubSeq(s, 1, b)
  BY <1>2 DEF Front
<1> QED BY <1>2, <1>3, <1>4, <1>5

\* Where process_nal() cuts: from the first start code to the next one, or to the
\* end of the buffer when there is none.
LEMMA CutPlaces ==
  ASSUME buffer \in Seq(Byte), ~NoNal
  PROVE  /\ Start \in Nat /\ Code(buffer, Start)
         /\ \A i \in Nat : i < Start => ~Code(buffer, i)
         /\ End \in Nat /\ Start < End /\ End <= Len(buffer)
         /\ \A i \in Nat : Start < i /\ i < End => ~Code(buffer, i)
         /\ Code(buffer, End) \/ (at_end /\ End = Len(buffer))
<1>1. Len(buffer) \in Nat
  OBVIOUS
<1>2. FirstCode(buffer, 0, Start) /\ Start # NotFound /\ End # NotFound
  BY PositionIsFirst DEF Start, NoNal
<1>3. /\ Start \in Nat /\ Code(buffer, Start)
      /\ \A i \in Nat : i < Start => ~Code(buffer, i)
  BY <1>2 DEF FirstCode
<1>4. FirstCode(buffer, Start + 1, NextStart)
  BY <1>3, PositionIsFirst DEF NextStart
<1>5. \A i \in Nat : Start < i => Start + 1 <= i
  BY <1>3
<1>6. Start + 2 < Len(buffer)
  BY <1>3 DEF Code
<1>7. CASE NextStart = NotFound
  <2>1. at_end /\ End = Len(buffer)
    BY <1>2, <1>7 DEF End
  <2>2. \A i \in Nat : Start < i => ~Code(buffer, i)
    BY <1>4, <1>5, <1>7 DEF FirstCode
  <2>3. Start < Len(buffer)
    BY <1>1, <1>3, <1>6
  <2> QED BY <1>1, <1>3, <2>1, <2>2, <2>3
<1>8. CASE NextStart # NotFound
  <2>1. End = NextStart
    BY <1>8 DEF End
  <2>2. /\ End \in Nat /\ Start + 1 <= End /\ Code(buffer, End)
        /\ \A i \in Nat : Start + 1 <= i /\ i < End => ~Code(buffer, i)
    BY <1>4, <1>8, <2>1 DEF FirstCode
  <2>3. End + 2 < Len(buffer)
    BY <2>2 DEF Code
  <2>4. Start < End /\ End <= Len(buffer)
    BY <1>1, <1>3, <2>2, <2>3
  <2> QED BY <1>3, <1>5, <2>2, <2>4
<1> QED BY <1>7, <1>8

\* No unit: fewer than two start codes, and at the end of the input none.
LEMMA NothingToCut ==
  ASSUME buffer \in Seq(Byte), NoNal
  PROVE  /\ \A i, j \in Nat : Code(buffer, i) /\ Code(buffer, j) => i = j
         /\ at_end => \A i \in Nat : ~Code(buffer, i)
<1>1. Len(buffer) \in Nat
  OBVIOUS
<1>2. FirstCode(buffer, 0, Start)
  BY PositionIsFirst DEF Start
<1>3. CASE Start = NotFound
  BY <1>2, <1>3 DEF FirstCode
<1>4. CASE Start # NotFound
  <2>1. End = NotFound
    BY <1>4 DEF NoNal
  <2>2. NextStart = NotFound /\ ~at_end
    BY <1>1, <2>1 DEF End, NotFound
  <2>3. Start \in Nat /\ \A i \in Nat : i < Start => ~Code(buffer, i)
    BY <1>2, <1>4 DEF FirstCode
  <2>4. FirstCode(buffer, Start + 1, NextStart)
    BY <2>3, PositionIsFirst DEF NextStart
  <2>5. \A i \in Nat : Start + 1 <= i => ~Code(buffer, i)
    BY <2>2, <2>4 DEF FirstCode
  <2>6. \A i \in Nat : i < Start \/ i = Start \/ Start + 1 <= i
    BY <2>3
  <2>7. \A i \in Nat : Code(buffer, i) => i = Start
    BY <2>3, <2>5, <2>6
  <2> QED BY <2>2, <2>7
<1> QED BY <1>3, <1>4

\* The unit and what is left.
LEMMA CutPieces ==
  ASSUME buffer \in Seq(Byte), ~NoNal
  PROVE  /\ Nal \in Seq(Byte) /\ Len(Nal) = End - Start
         /\ \A i \in 1 .. Len(Nal) : Nal[i] = buffer[Start + i]
         /\ Rest \in Seq(Byte) /\ Len(Rest) = Len(buffer) - End
         /\ \A i \in 1 .. Len(Rest) : Rest[i] = buffer[End + i]
<1>1. Start \in Nat /\ End \in Nat /\ Len(buffer) \in Nat /\ Start < End /\ End <= Len(buffer)
  BY CutPlaces
<1> DEFINE a == Start
           b == End
<1>2. a \in Nat /\ b \in Nat /\ a < b /\ b <= Len(buffer) /\ Len(buffer) \in Nat
  BY <1>1
<1> HIDE DEF a, b
<1>3. /\ SubSeq(buffer, a + 1, b) \in Seq(Byte) /\ Len(SubSeq(buffer, a + 1, b)) = b - a
      /\ \A i \in 1 .. b - a : SubSeq(buffer, a + 1, b)[i] = buffer[a + i]
  BY <1>2, Window
<1>4. /\ SubSeq(buffer, b + 1, Len(buffer)) \in Seq(Byte)
      /\ Len(SubSeq(buffer, b + 1, Len(buffer))) = Len(buffer) - b
      /\ \A i \in 1 .. Len(buffer) - b :
           SubSeq(buffer, b + 1, Len(buffer))[i] = buffer[b + i]
  BY <1>2, Window
<1> QED BY <1>3, <1>4 DEF a, b, Nal, Rest

-----------------------------------------------------------------------------
\* The network and the socket.

\* A PDU of the stream; whatever else is in the network, the listener drops.
Genuine(pdu) == pdu.odd = "none"

\* The PDUs in s are of the set pdus, and those of the stream carry the pieces
\* from first + 1 to last, in order.
InOrder(s, first, last, pdus) ==
  /\ s \in Seq(pdus)
  /\ \A i \in 1 .. Len(s) : Genuine(s[i]) => s[i].id \in first + 1 .. last
  /\ \A i, j \in 1 .. Len(s) :
       Genuine(s[i]) /\ Genuine(s[j]) /\ i < j => s[i].id < s[j].id
  /\ \A id \in first + 1 .. last :
       \E i \in 1 .. Len(s) : Genuine(s[i]) /\ s[i].id = id

\* The talker sends the next piece.
LEMMA SentInOrder ==
  ASSUME NEW pdus, NEW s, NEW first \in Nat, NEW last \in Nat, first <= last,
         InOrder(s, first, last, pdus),
         NEW pdu \in pdus, Genuine(pdu), pdu.id = last + 1
  PROVE  InOrder(Append(s, pdu), first, last + 1, pdus)
<1> DEFINE t == Append(s, pdu)
<1>1. s \in Seq(pdus)
  BY DEF InOrder
<1>2. /\ t \in Seq(pdus) /\ Len(t) = Len(s) + 1 /\ Len(s) \in Nat
      /\ t[Len(s) + 1] = pdu
      /\ \A i \in 1 .. Len(s) : t[i] = s[i]
  BY <1>1
<1> HIDE DEF t
<1>3. ASSUME NEW i \in 1 .. Len(t), Genuine(t[i])
      PROVE  t[i].id \in first + 1 .. last + 1
  <2>1. CASE i = Len(s) + 1
    BY <2>1, <1>2
  <2>2. CASE i \in 1 .. Len(s)
    <3>1. t[i] = s[i]
      BY <2>2, <1>2
    <3>2. t[i].id \in first + 1 .. last
      BY <3>1, <2>2, <1>3 DEF InOrder
    <3> QED BY <3>2
  <2> QED BY <2>1, <2>2, <1>2
<1>4. ASSUME NEW i \in 1 .. Len(t), NEW j \in 1 .. Len(t),
             Genuine(t[i]), Genuine(t[j]), i < j
      PROVE  t[i].id < t[j].id
  <2>1. i \in 1 .. Len(s) /\ t[i] = s[i] /\ s[i].id \in first + 1 .. last
    <3>1. i \in 1 .. Len(s) /\ t[i] = s[i]
      BY <1>2, <1>4
    <3> QED BY <3>1, <1>4 DEF InOrder
  <2>2. CASE j = Len(s) + 1
    BY <2>1, <2>2, <1>2
  <2>3. CASE j \in 1 .. Len(s)
    <3>1. t[j] = s[j]
      BY <2>3, <1>2
    <3> QED BY <3>1, <2>1, <2>3, <1>4 DEF InOrder
  <2> QED BY <2>2, <2>3, <1>2
<1>5. ASSUME NEW id \in first + 1 .. last + 1
      PROVE  \E i \in 1 .. Len(t) : Genuine(t[i]) /\ t[i].id = id
  <2>1. CASE id = last + 1
    BY <2>1, <1>2
  <2>2. CASE id \in first + 1 .. last
    <3>1. PICK i \in 1 .. Len(s) : Genuine(s[i]) /\ s[i].id = id
      BY <2>2 DEF InOrder
    <3> QED BY <3>1, <1>2
  <2> QED BY <2>1, <2>2
<1> QED BY <1>2, <1>3, <1>4, <1>5 DEF InOrder, t

\* Something else reaches the socket.
LEMMA StrayInOrder ==
  ASSUME NEW pdus, NEW s, NEW first \in Nat, NEW last \in Nat,
         InOrder(s, first, last, pdus), NEW pdu \in pdus, ~Genuine(pdu)
  PROVE  InOrder(Append(s, pdu), first, last, pdus)
<1> DEFINE t == Append(s, pdu)
<1>1. s \in Seq(pdus)
  BY DEF InOrder
<1>2. /\ t \in Seq(pdus) /\ Len(t) = Len(s) + 1 /\ Len(s) \in Nat
      /\ t[Len(s) + 1] = pdu
      /\ \A i \in 1 .. Len(s) : t[i] = s[i]
  BY <1>1
<1> HIDE DEF t
<1>3. \A i \in 1 .. Len(t) : i \in 1 .. Len(s) \/ i = Len(s) + 1
  BY <1>2
<1>4. \A i \in 1 .. Len(t) : Genuine(t[i]) => i \in 1 .. Len(s) /\ t[i] = s[i]
  BY <1>2, <1>3
<1>5. \A i \in 1 .. Len(t) : Genuine(t[i]) => t[i].id \in first + 1 .. last
  BY <1>4 DEF InOrder
<1>6. ASSUME NEW i \in 1 .. Len(t), NEW j \in 1 .. Len(t),
             Genuine(t[i]), Genuine(t[j]), i < j
      PROVE  t[i].id < t[j].id
  BY <1>4, <1>6 DEF InOrder
<1>7. ASSUME NEW id \in first + 1 .. last
      PROVE  \E i \in 1 .. Len(t) : Genuine(t[i]) /\ t[i].id = id
  <2>1. PICK i \in 1 .. Len(s) : Genuine(s[i]) /\ s[i].id = id
    BY DEF InOrder
  <2> QED BY <2>1, <1>2
<1> QED BY <1>2, <1>5, <1>6, <1>7 DEF InOrder, t

\* The PDU of the stream that comes first is that of piece first + 1, and
\* without it the rest is in order from there.
LEMMA TakenInOrder ==
  ASSUME NEW pdus, NEW s, NEW first \in Nat, NEW last \in Nat, first <= last,
         InOrder(s, first, last, pdus), s # <<>>, Genuine(Head(s))
  PROVE  /\ Head(s) \in pdus
         /\ Head(s).id = first + 1
         /\ first + 1 <= last
         /\ InOrder(Tail(s), first + 1, last, pdus)
<1> DEFINE t == Tail(s)
<1>1. s \in Seq(pdus)
  BY DEF InOrder
<1>2. /\ t \in Seq(pdus) /\ Len(s) \in Nat /\ Len(s) >= 1
      /\ Len(t) = Len(s) - 1 /\ Head(s) = s[1] /\ s[1] \in pdus
      /\ \A i \in 1 .. Len(t) : t[i] = s[i + 1]
  BY <1>1, EmptySeq
<1> HIDE DEF t
<1>3. 1 \in 1 .. Len(s) /\ Genuine(s[1])
  BY <1>2
<1>4. s[1].id \in first + 1 .. last
  BY <1>3 DEF InOrder
<1>5. s[1].id = first + 1
  <2>1. PICK i \in 1 .. Len(s) : Genuine(s[i]) /\ s[i].id = first + 1
    <3>1. first + 1 \in first + 1 .. last
      BY <1>4
    <3> QED BY <3>1 DEF InOrder
  <2>2. CASE i = 1
    BY <2>1, <2>2
  <2>3. CASE 1 < i
    <3>1. s[1].id < s[i].id
      BY <2>1, <2>3, <1>3 DEF InOrder
    <3> QED BY <3>1, <2>1, <1>4
  <2> QED BY <2>2, <2>3
<1>6. \A i \in 1 .. Len(t) : i + 1 \in 1 .. Len(s) /\ 1 < i + 1
  BY <1>2
<1>7. ASSUME NEW i \in 1 .. Len(t), Genuine(t[i])
      PROVE  t[i].id \in first + 1 + 1 .. last
  <2>1. t[i] = s[i + 1] /\ i + 1 \in 1 .. Len(s) /\ 1 < i + 1
    BY <1>2, <1>6
  <2>2. s[1].id < t[i].id /\ t[i].id \in first + 1 .. last
    BY <2>1, <1>3, <1>7 DEF InOrder
  <2> QED BY <2>2, <1>5
<1>8. ASSUME NEW i \in 1 .. Len(t), NEW j \in 1 .. Len(t),
             Genuine(t[i]), Genuine(t[j]), i < j
      PROVE  t[i].id < t[j].id
  <2>1. /\ t[i] = s[i + 1] /\ i + 1 \in 1 .. Len(s)
        /\ t[j] = s[j + 1] /\ j + 1 \in 1 .. Len(s) /\ i + 1 < j + 1
    BY <1>2, <1>6, <1>8
  <2> QED BY <2>1, <1>8 DEF InOrder
<1>9. ASSUME NEW id \in first + 1 + 1 .. last
      PROVE  \E i \in 1 .. Len(t) : Genuine(t[i]) /\ t[i].id = id
  <2>1. id \in first + 1 .. last /\ id # first + 1
    OBVIOUS
  <2>2. PICK i \in 1 .. Len(s) : Genuine(s[i]) /\ s[i].id = id
    BY <2>1 DEF InOrder
  <2>3. i # 1
    BY <2>1, <2>2, <1>5
  <2>4. i - 1 \in 1 .. Len(t) /\ t[i - 1] = s[i]
    BY <2>3, <1>2
  <2> QED BY <2>2, <2>4
<1>10. InOrder(t, first + 1, last, pdus)
  BY <1>2, <1>7, <1>8, <1>9 DEF InOrder
<1> QED BY <1>2, <1>4, <1>5, <1>10 DEF t

\* Nothing else is lost with a PDU of something else.
LEMMA DroppedInOrder ==
  ASSUME NEW pdus, NEW s, NEW first \in Nat, NEW last \in Nat,
         InOrder(s, first, last, pdus), s # <<>>, ~Genuine(Head(s))
  PROVE  InOrder(Tail(s), first, last, pdus)
<1> DEFINE t == Tail(s)
<1>1. s \in Seq(pdus)
  BY DEF InOrder
<1>2. /\ t \in Seq(pdus) /\ Len(s) \in Nat /\ Len(s) >= 1
      /\ Len(t) = Len(s) - 1 /\ Head(s) = s[1]
      /\ \A i \in 1 .. Len(t) : t[i] = s[i + 1]
  BY <1>1, EmptySeq
<1> HIDE DEF t
<1>3. \A i \in 1 .. Len(t) : t[i] = s[i + 1] /\ i + 1 \in 1 .. Len(s)
  BY <1>2
<1>4. \A i \in 1 .. Len(t) : Genuine(t[i]) => t[i].id \in first + 1 .. last
  BY <1>3 DEF InOrder
<1>5. ASSUME NEW i \in 1 .. Len(t), NEW j \in 1 .. Len(t),
             Genuine(t[i]), Genuine(t[j]), i < j
      PROVE  t[i].id < t[j].id
  <2>1. i + 1 < j + 1
    BY <1>5
  <2> QED BY <2>1, <1>3, <1>5 DEF InOrder
<1>6. ASSUME NEW id \in first + 1 .. last
      PROVE  \E i \in 1 .. Len(t) : Genuine(t[i]) /\ t[i].id = id
  <2>1. PICK i \in 1 .. Len(s) : Genuine(s[i]) /\ s[i].id = id
    BY DEF InOrder
  <2>2. i # 1
    BY <2>1, <1>2
  <2>3. i - 1 \in 1 .. Len(t) /\ t[i - 1] = s[i]
    BY <2>2, <1>2
  <2> QED BY <2>1, <2>3
<1> QED BY <1>2, <1>4, <1>5, <1>6 DEF InOrder, t

\* What the PDUs in s may be, when more may be than before.
LEMMA WiderInOrder ==
  ASSUME NEW pdus, NEW more, pdus \subseteq more,
         NEW s, NEW first, NEW last, InOrder(s, first, last, pdus)
  PROVE  InOrder(s, first, last, more)
BY SeqMonotonic DEF InOrder

-----------------------------------------------------------------------------
\* The inductive invariant.

Entry == [id : Nat, ptime : Nat, tspec : Nat, len : 0 .. DataLens - 1]

Output == [id : Nat, len : Nat]

\* What may be in the network: a PDU of the stream says how long its piece is,
\* and one of ieciidc-talker which blocks are in it; what else there is, the
\* listener turns away.
IecPdus ==
  {p \in Pdu : IF Genuine(p)
               THEN p.room = TsLen /\ p.dbc = (8 * (p.id - 1)) % Dbcs
               ELSE p.odd \in IecChecked}

CvfPdus(pieces) ==
  {p \in Pdu : IF Genuine(p)
               THEN p.id \in 1 .. Len(pieces) /\ H264DataLen(p) = Len(pieces[p.id])
               ELSE p.odd \in CvfChecked}

Pdus(pieces) == IF format = "iec" THEN IecPdus ELSE CvfPdus(pieces)

\* How many bytes a listener is to write for each piece.
Sizes(pieces) ==
  [id \in 1 .. Len(pieces) |-> IF format = "iec" THEN TsLen ELSE Len(pieces[id])]

\* What the talker has read and sent, and how far its counter has come.
TalkerInv ==
  /\ SourceTypeOK
  /\ CvfTypeOK
  /\ format \in {"cvf", "iec"}
  /\ dbc = IF format = "iec" THEN (8 * Len(carried)) % Dbcs ELSE 0

\* timeout() always finds the entry the timer was armed for.
TimerInv ==
  /\ running \in BOOLEAN
  /\ ready \subseteq {"sk", "timer"}
  /\ samples \in Seq(Entry)
  /\ timer \in Nat \cup {NoTimer}
  /\ timer # NoTimer => samples # <<>>
  /\ "timer" \in ready => samples # <<>>

WorldInv ==
  /\ now \in Nat
  /\ lost \in Nat
  /\ faults \in Seq(FaultKinds)
  /\ complaint \in BOOLEAN

\* Whole pieces up to number first are in the queue, and after those that have
\* been written; none is there twice and they are in order.
Written(queue, out, first, sizes) ==
  /\ out \in Seq(Output)
  /\ \A i \in 1 .. Len(queue) :
       queue[i].id \in 1 .. first /\ queue[i].len = sizes[queue[i].id]
  /\ \A i \in 1 .. Len(out) :
       out[i].id \in 1 .. first /\ out[i].len = sizes[out[i].id]
  /\ \A i, j \in 1 .. Len(queue) : i < j => queue[i].id < queue[j].id
  /\ \A i, j \in 1 .. Len(out) : i < j => out[i].id < out[j].id
  /\ \A i \in 1 .. Len(out), j \in 1 .. Len(queue) : out[i].id < queue[j].id

\* The listener is done with the first pieces: it has accepted, and counted the
\* blocks of, all of them but the lost ones.
ListenerInv(first) ==
  /\ InOrder(net, first, Len(carried), Pdus(carried))
  /\ expected_dbc = IF format = "iec" THEN (8 * (first - lost)) % Dbcs ELSE 0
  /\ Written(samples, presented, first, Sizes(carried))

IInv ==
  /\ TalkerInv
  /\ TimerInv
  /\ WorldInv
  /\ \E first \in Nat : first <= Len(carried) /\ ListenerInv(first)

-----------------------------------------------------------------------------
\* The talker.

LEMMA InitIInv == Init => IInv
<1> SUFFICES ASSUME Init PROVE IInv
  OBVIOUS
<1> USE DEF Init
<1>1. TalkerInv
  <2>1. /\ format \in {"cvf", "iec"} /\ stream \in CvfStreams \cup IecStreams
        /\ input = stream /\ carried = <<>> /\ stage = "fill" /\ dbc = 0
        /\ buffer = <<>> /\ at_end = FALSE
    BY DEF SourceInit, IecInit, CvfInit
  <2>2. stream \in Seq(Byte) /\ carried \in Seq(Seq(Byte)) /\ 8 * Len(carried) = 0
    BY <2>1, VideoAssumption
  <2>3. 0 % Dbcs = 0
    BY Constants, ModUnique, Dbcs * 0 + 0 = 0
  <2>4. buffer \in Seq(Byte) /\ Len(buffer) <= BufferSize
    BY <2>1, Constants
  <2> QED BY <2>1, <2>2, <2>3, <2>4 DEF TalkerInv, SourceTypeOK, CvfTypeOK, Stages
<1>2. TimerInv
  BY DEF ListenerInit, QueueInit, TimerInv
<1>3. WorldInv
  <2>1. now = 0 /\ lost = 0 /\ faults = <<>> /\ complaint = FALSE
    BY DEF ListenerInit
  <2>2. <<>> \in Seq(FaultKinds)
    OBVIOUS
  <2>3. complaint \in BOOLEAN
    BY <2>1
  <2>4. now \in Nat /\ lost \in Nat /\ faults \in Seq(FaultKinds)
    BY <2>1, <2>2
  <2> QED BY <2>3, <2>4 DEF WorldInv
<1>4. 0 <= Len(carried) /\ ListenerInv(0)
  <2>1. /\ carried = <<>> /\ net = <<>> /\ samples = <<>> /\ presented = <<>>
        /\ expected_dbc = 0 /\ lost = 0
    BY DEF SourceInit, ListenerInit, QueueInit
  <2>2. Len(carried) = 0 /\ Len(net) = 0 /\ Len(samples) = 0 /\ Len(presented) = 0
    BY <2>1
  <2>3. InOrder(net, 0, Len(carried), Pdus(carried))
    BY <2>1, <2>2 DEF InOrder
  <2>4. Written(samples, presented, 0, Sizes(carried))
    BY <2>1, <2>2 DEF Written
  <2>5. (8 * (0 - lost)) % Dbcs = 0
    BY <2>1, Constants, ModUnique, Dbcs * 0 + 0 = 0, 8 * (0 - 0) = 0
  <2> QED BY <2>1, <2>2, <2>3, <2>4, <2>5 DEF ListenerInv
<1> QED BY <1>1, <1>2, <1>3, <1>4 DEF IInv

\* How many bytes a read() may return.
LEMMA ReadLengthsType ==
  ASSUME NEW room \in Nat, NEW n \in ReadLengths(room), input \in Seq(Byte)
  PROVE  /\ n \in 0 .. Len(input)
         /\ n <= room
         /\ n = 0 => room = 0 \/ input = <<>>
<1> DEFINE S == {room, Len(input)}
           most == Min(S)
<1>1. Len(input) \in Nat
  OBVIOUS
<1>2. \E x \in S : \A y \in S : x <= y
  <2>1. CASE room <= Len(input)
    BY <2>1, <1>1
  <2>2. CASE Len(input) <= room
    BY <2>2, <1>1
  <2> QED BY <1>1, <2>1, <2>2
<1>3. most \in S /\ \A y \in S : most <= y
  BY <1>2 DEF Min
<1>4. most \in 0 .. Len(input) /\ most <= room
  BY <1>1, <1>3
<1>5. ReadLengths(room) = IF most = 0 THEN {0} ELSE 1 .. most
  BY DEF ReadLengths
<1>6. most = 0 => room = 0 \/ input = <<>>
  <2>1. most = room \/ most = Len(input)
    BY <1>3
  <2>2. Len(input) = 0 => input = <<>>
    BY EmptySeq
  <2> QED BY <2>1, <2>2
<1> HIDE DEF most
<1> QED BY <1>1, <1>4, <1>5, <1>6

\* What is read, and what is left to read.
LEMMA ReadPieces ==
  ASSUME input \in Seq(Byte), NEW n \in 0 .. Len(input)
  PROVE  /\ SubSeq(input, 1, n) \in Seq(Byte)
         /\ Len(SubSeq(input, 1, n)) = n
         /\ \A i \in 1 .. n : SubSeq(input, 1, n)[i] = input[i]
         /\ SubSeq(input, n + 1, Len(input)) \in Seq(Byte)
         /\ Len(SubSeq(input, n + 1, Len(input))) = Len(input) - n
         /\ \A i \in 1 .. Len(input) - n : SubSeq(input, n + 1, Len(input))[i] = input[n + i]
<1>1. Len(input) \in Nat
  OBVIOUS
<1>2. 0 + 1 = 1 /\ n - 0 = n /\ \A i \in 1 .. n : 0 + i = i
  OBVIOUS
<1>3. /\ SubSeq(input, 0 + 1, n) \in Seq(Byte) /\ Len(SubSeq(input, 0 + 1, n)) = n - 0
      /\ \A i \in 1 .. n - 0 : SubSeq(input, 0 + 1, n)[i] = input[0 + i]
  BY <1>1, Window
<1>4. /\ SubSeq(input, n + 1, Len(input)) \in Seq(Byte)
      /\ Len(SubSeq(input, n + 1, Len(input))) = Len(input) - n
      /\ \A i \in 1 .. Len(input) - n : SubSeq(input, n + 1, Len(input))[i] = input[n + i]
  BY <1>1, Window
<1> QED BY <1>2, <1>3, <1>4

\* The counter goes up by the blocks of one packet.
LEMMA DbcStep ==
  ASSUME NEW k \in Int
  PROVE  (((8 * k) % Dbcs) + 8) % Dbcs = (8 * (k + 1)) % Dbcs
<1> DEFINE q == (8 * k) \div Dbcs
           r == (8 * k) % Dbcs
<1>0. Dbcs \in Nat \ {0} /\ 8 * k \in Int
  BY Constants
<1>1. q \in Int /\ r \in Int /\ 8 * k = Dbcs * q + r
  BY <1>0, DivMod
<1> HIDE DEF q, r
<1>2. 8 * (k + 1) = (r + 8) + Dbcs * q
  BY <1>0, <1>1
<1>3. ((r + 8) + Dbcs * q) % Dbcs = (r + 8) % Dbcs
  <2>1. r + 8 \in Int
    BY <1>1
  <2> QED BY <1>0, <1>1, <2>1, ModShift
<1> QED BY <1>2, <1>3 DEF r

\* A step of the talker that sends nothing, or of the listener that changes
\* nothing of the stream.
LEMMA QuietIInv ==
  ASSUME IInv, TalkerInv', TimerInv', WorldInv',
         UNCHANGED <<format, carried, net, lost, presented, expected_dbc>>,
         samples' = samples \/ samples' = <<>>
  PROVE  IInv'
<1>1. PICK first \in Nat : first <= Len(carried) /\ ListenerInv(first)
  BY DEF IInv
<1>2. Written(samples', presented, first, Sizes(carried))
  <2>1. CASE samples' = samples
    BY <1>1, <2>1 DEF ListenerInv
  <2>2. CASE samples' = <<>>
    <3>1. Len(samples') = 0
      BY <2>2
    <3> QED BY <1>1, <3>1 DEF ListenerInv, Written
  <2> QED BY <2>1, <2>2
<1>3. ListenerInv(first)' /\ first <= Len(carried')
  BY <1>1, <1>2 DEF ListenerInv, Pdus, Sizes
<1> QED BY <1>3 DEF IInv

LEMMA FaultType ==
  ASSUME faults \in Seq(FaultKinds), NEW kind, Fault(kind)
  PROVE  faults' \in Seq(FaultKinds)
BY DEF Fault

\* More pieces change nothing of what is queued or written.
LEMMA WrittenAgrees ==
  ASSUME NEW q, NEW out, NEW first \in Nat, NEW sizes, NEW more,
         \A id \in 1 .. first : more[id] = sizes[id], Written(q, out, first, sizes)
  PROVE  Written(q, out, first, more)
BY DEF Written

\* A PDU of the stream stays one when another piece is sent.
LEMMA MorePdus ==
  ASSUME carried \in Seq(Seq(Byte)), NEW piece \in Seq(Byte)
  PROVE  /\ Pdus(carried) \subseteq Pdus(Append(carried, piece))
         /\ \A id \in 1 .. Len(carried) :
              Sizes(Append(carried, piece))[id] = Sizes(carried)[id]
<1> DEFINE more == Append(carried, piece)
<1>1. /\ Len(carried) \in Nat /\ Len(more) = Len(carried) + 1
      /\ \A i \in 1 .. Len(carried) : more[i] = carried[i] /\ i \in 1 .. Len(more)
  OBVIOUS
<1> HIDE DEF more
<1>2. CvfPdus(carried) \subseteq CvfPdus(more)
  BY <1>1 DEF CvfPdus
<1>3. \A id \in 1 .. Len(carried) : Sizes(more)[id] = Sizes(carried)[id]
  BY <1>1 DEF Sizes
<1> QED BY <1>2, <1>3 DEF Pdus, more

\* A number of 16 bits.
LEMMA SixteenBits == ASSUME NEW x \in 0 .. DataLens - 1 PROVE x % DataLens = x
<1>1. DataLens \in Nat \ {0} /\ x = DataLens * 0 + x
  BY Constants
<1> QED BY <1>1, ModUnique, 0 \in Int

\* What a PDU says of its piece.
LEMMA PduIsTrue ==
  ASSUME IInv, NEW piece \in Seq(Byte), carried' = Append(carried, piece),
         format = "cvf" => Len(piece) <= DataLen
  PROVE  /\ PduFor(piece) \in Pdus(carried')
         /\ Genuine(PduFor(piece))
         /\ PduFor(piece).id = Len(carried) + 1
<1> DEFINE pdu == PduFor(piece)
<1>1. /\ carried \in Seq(Seq(Byte)) /\ format \in {"cvf", "iec"} /\ now \in Nat
      /\ dbc = IF format = "iec" THEN (8 * Len(carried)) % Dbcs ELSE 0
  BY DEF IInv, TalkerInv, WorldInv, SourceTypeOK
<1>2. /\ Len(carried) \in Nat /\ Len(carried') = Len(carried) + 1 /\ Len(piece) \in Nat
      /\ carried'[Len(carried) + 1] = piece /\ Len(carried) + 1 \in 1 .. Len(carried')
  BY <1>1
<1>3. /\ TsLen \in Nat /\ SubHeader \in Nat /\ DataLen \in Nat /\ DataLen < DataLens /\ DataLens \in Nat
      /\ Dbcs \in Nat \ {0} /\ Wrap \in Nat \ {0} /\ TransitTime \in Nat
  BY Constants
<1>4. pdu = [id        |-> Len(carried) + 1,
             odd       |-> "none",
             len       |-> IF format = "cvf" THEN Len(piece) + SubHeader
                                             ELSE TsLen + CipHeaders,
             room      |-> IF format = "cvf" THEN Len(piece) ELSE TsLen,
             dbc       |-> dbc,
             ptime     |-> now + TransitTime,
             avtp_time |-> ToAvtpTime(now + TransitTime),
             due       |-> now + TransitTime]
  BY DEF PduFor
<1>5. now + TransitTime \in Nat /\ TsLen + CipHeaders \in Nat
      /\ Len(piece) + SubHeader \in Nat /\ Len(carried) + 1 \in Nat
  BY <1>1, <1>2, <1>3 DEF CipHeaders
<1>6. ToAvtpTime(now + TransitTime) \in Nat
  <2>1. \A x \in Int : x % Wrap \in Nat
    BY <1>3, DivMod
  <2> QED BY <1>5, <2>1 DEF ToAvtpTime
<1>7. dbc \in Nat
  <2>1. 8 * Len(carried) \in Int
    BY <1>2
  <2>2. (8 * Len(carried)) % Dbcs \in Nat
    BY <1>3, <2>1, DivMod
  <2> QED BY <1>1, <2>2
<1> HIDE DEF pdu
<1>8. pdu \in Pdu /\ Genuine(pdu) /\ pdu.id = Len(carried) + 1 /\ pdu.dbc = dbc
  BY <1>2, <1>3, <1>4, <1>5, <1>6, <1>7 DEF Pdu, Genuine
<1>9. CASE format = "iec"
  <2>1. pdu.room = TsLen
    BY <1>4, <1>9
  <2>2. pdu.dbc = (8 * (pdu.id - 1)) % Dbcs
    <3>1. Len(carried) + 1 - 1 = Len(carried)
      BY <1>2
    <3> QED BY <1>1, <1>8, <1>9, <3>1
  <2> QED BY <1>8, <1>9, <2>1, <2>2 DEF Pdus, IecPdus, pdu
<1>10. CASE format = "cvf"
  <2>1. pdu.len = Len(piece) + SubHeader
    BY <1>4, <1>10
  <2>2. H264DataLen(pdu) = Len(piece)
    <3>1. Len(piece) + SubHeader - SubHeader = Len(piece)
      BY <1>2, <1>3
    <3>2. Len(piece) \in 0 .. DataLens - 1
      BY <1>2, <1>3, <1>10
    <3>3. Len(piece) % DataLens = Len(piece)
      BY <3>2, SixteenBits
    <3>4. pdu.len - SubHeader = Len(piece)
      BY <1>2, <1>3, <1>5, <2>1
    <3> QED BY <3>3, <3>4 DEF H264DataLen
  <2> QED BY <1>2, <1>8, <1>10, <2>2 DEF Pdus, CvfPdus, pdu
<1> QED BY <1>1, <1>8, <1>9, <1>10 DEF pdu

\* A piece goes out.
LEMMA SendIInv ==
  ASSUME IInv, TalkerInv', WorldInv',
         NEW piece \in Seq(Byte), carried' = Append(carried, piece),
         format = "cvf" => Len(piece) <= DataLen,
         Sends, UNCHANGED <<listenerVars, format, lost, presented>>
  PROVE  IInv'
<1>1. /\ carried \in Seq(Seq(Byte)) /\ Len(carried) \in Nat
      /\ Len(carried') = Len(carried) + 1 /\ Last(carried') = piece
  BY DEF IInv, TalkerInv, SourceTypeOK, Last
<1>2. TimerInv'
  BY DEF IInv, TimerInv, listenerVars, queueVars
<1>3. PICK first \in Nat : first <= Len(carried) /\ ListenerInv(first)
  BY DEF IInv
<1>4. /\ Pdus(carried) \subseteq Pdus(carried')
      /\ \A id \in 1 .. Len(carried) : Sizes(carried')[id] = Sizes(carried)[id]
  BY <1>1, MorePdus
<1>5. InOrder(net', first, Len(carried'), Pdus(carried'))
  <2>1. InOrder(net, first, Len(carried), Pdus(carried'))
    BY <1>3, <1>4, WiderInOrder DEF ListenerInv
  <2>2. net' = Append(net, PduFor(piece))
    BY <1>1 DEF Sends
  <2> QED BY <1>1, <1>3, <2>1, <2>2, PduIsTrue, SentInOrder
<1>6. Written(samples, presented, first, Sizes(carried'))
  <2>1. \A id \in 1 .. first : Sizes(carried')[id] = Sizes(carried)[id]
    BY <1>1, <1>3, <1>4
  <2> QED BY <1>3, <2>1, WrittenAgrees DEF ListenerInv
<1>7. (Pdus(carried))' = Pdus(carried') /\ (Sizes(carried))' = Sizes(carried')
  BY DEF Pdus, Sizes
<1>8. ListenerInv(first)'
  BY <1>3, <1>5, <1>6, <1>7 DEF ListenerInv, listenerVars, queueVars
<1>9. first <= Len(carried')
  BY <1>1, <1>3
<1> QED BY <1>2, <1>3, <1>8, <1>9 DEF IInv

\* ieciidc-talker sends what it read, whatever that is.
LEMMA IecSentTalker ==
  ASSUME IInv, format = "iec", NEW piece \in Seq(Byte), carried' = Append(carried, piece),
         input' \in Seq(Byte), dbc' = (dbc + BlocksPerPacket) % DbcRange,
         UNCHANGED <<stream, stage, format, cvfVars>>
  PROVE  TalkerInv'
<1>1. carried \in Seq(Seq(Byte)) /\ dbc = (8 * Len(carried)) % Dbcs
  BY DEF IInv, TalkerInv, SourceTypeOK
<1>2. Len(carried) \in Nat /\ carried' \in Seq(Seq(Byte)) /\ Len(carried') = Len(carried) + 1
  BY <1>1
<1>3. dbc' = (((8 * Len(carried)) % Dbcs) + 8) % Dbcs
  BY <1>1, Constants DEF BlocksPerPacket
<1>4. dbc' = (8 * Len(carried')) % Dbcs
  BY <1>2, <1>3, DbcStep
<1> QED BY <1>2, <1>4 DEF IInv, TalkerInv, SourceTypeOK, CvfTypeOK, cvfVars

LEMMA IecTalksIInv ==
  ASSUME IInv, IecTalks PROVE IInv'
<1>1. /\ format = "iec" /\ format' = format
      /\ UNCHANGED <<cvfVars, listenerVars, now, lost, faults, presented>>
  BY DEF IecTalks
<1>2. TimerInv' /\ WorldInv'
  BY <1>1 DEF IInv, TimerInv, WorldInv, listenerVars, queueVars
<1>3. ASSUME SendPacket, Sends PROVE IInv'
  <2>1. PICK n \in ReadLengths(TsLen) \ {0} :
          /\ carried' = Append(carried, SubSeq(input, 1, n))
          /\ input' = SubSeq(input, n + 1, Len(input))
    BY <1>3 DEF SendPacket
  <2>2. input \in Seq(Byte) /\ TsLen \in Nat
    BY Constants DEF IInv, TalkerInv, SourceTypeOK
  <2>3. n \in 0 .. Len(input)
    BY <2>2, ReadLengthsType
  <2>4. SubSeq(input, 1, n) \in Seq(Byte) /\ SubSeq(input, n + 1, Len(input)) \in Seq(Byte)
    BY <2>2, <2>3, ReadPieces
  <2>5. TalkerInv'
    BY <1>1, <1>3, <2>1, <2>4, IecSentTalker DEF SendPacket
  <2>6. format # "cvf"
    BY <1>1
  <2> QED BY <1>1, <1>2, <1>3, <2>1, <2>4, <2>5, <2>6, SendIInv
<1>4. ASSUME StopTalking, UNCHANGED net PROVE IInv'
  <2>1. TalkerInv'
    BY <1>1, <1>4 DEF StopTalking, IInv, TalkerInv, SourceTypeOK, CvfTypeOK, cvfVars, Stages
  <2> QED BY <1>1, <1>2, <1>4, <2>1, QuietIInv DEF StopTalking, listenerVars, queueVars
<1> QED BY <1>3, <1>4 DEF IecTalks

LEMMA ReadFailsIInv ==
  ASSUME IInv, ReadFails PROVE IInv'
<1>1. format' = format /\ UNCHANGED <<listenerVars, now, lost, presented>> /\ Fault("read")
  BY DEF ReadFails
<1>2. TimerInv' /\ WorldInv'
  BY <1>1, FaultType DEF IInv, TimerInv, WorldInv, listenerVars, queueVars
<1>3. CASE format = "iec"
  <2>1. SendNothing /\ Sends /\ UNCHANGED cvfVars
    BY <1>3 DEF ReadFails
  <2>2. /\ <<>> \in Seq(Byte) /\ carried' = Append(carried, <<>>) /\ input' \in Seq(Byte)
        /\ UNCHANGED <<stream, stage>> /\ dbc' = (dbc + BlocksPerPacket) % DbcRange
    BY <2>1 DEF SendNothing, IInv, TalkerInv, SourceTypeOK
  <2>3. TalkerInv'
    BY <1>1, <1>3, <2>1, <2>2, IecSentTalker
  <2>4. format # "cvf"
    BY <1>3
  <2> QED BY <1>1, <1>2, <2>1, <2>2, <2>3, <2>4, SendIInv
<1>4. CASE format # "iec"
  <2>1. FillFails /\ UNCHANGED <<dbc, net>>
    BY <1>4 DEF ReadFails
  <2>2. /\ buffer \in Seq(Byte) /\ Len(buffer) \in Nat /\ Len(buffer) <= BufferSize
        /\ BufferSize \in Nat
    BY Constants DEF IInv, TalkerInv, CvfTypeOK
  <2>3. buffer # <<>> =>
          Front(buffer) \in Seq(Byte) /\ Len(Front(buffer)) = Len(buffer) - 1
    BY <2>2, FrontPieces
  <2>4. /\ buffer' \in Seq(Byte) /\ Len(buffer') <= BufferSize
        /\ at_end' = FALSE /\ stage' \in Stages
    <3>1. at_end' = FALSE /\ stage' \in Stages
      BY <2>1 DEF FillFails, Stages
    <3>2. buffer' = buffer \/ (buffer # <<>> /\ buffer' = Front(buffer))
      BY <2>1 DEF FillFails
    <3>3. Len(buffer) - 1 <= BufferSize
      BY <2>2
    <3> QED BY <2>2, <2>3, <3>1, <3>2, <3>3
  <2>5. TalkerInv'
    BY <1>1, <2>1, <2>4 DEF FillFails, IInv, TalkerInv, SourceTypeOK, CvfTypeOK
  <2> QED BY <1>1, <1>2, <2>1, <2>5, QuietIInv DEF FillFails, listenerVars, queueVars
<1> QED BY <1>3, <1>4

LEMMA CvfTalksIInv ==
  ASSUME IInv, CvfTalks PROVE IInv'
<1>1. /\ format = "cvf" /\ format' = format
      /\ UNCHANGED <<dbc, listenerVars, now, lost, faults, presented>>
  BY DEF CvfTalks
<1>2. TimerInv' /\ WorldInv'
  BY <1>1 DEF IInv, TimerInv, WorldInv, listenerVars, queueVars
<1>3. /\ buffer \in Seq(Byte) /\ Len(buffer) \in Nat /\ Len(buffer) <= BufferSize
      /\ input \in Seq(Byte) /\ BufferSize \in Nat
  BY Constants DEF IInv, TalkerInv, SourceTypeOK, CvfTypeOK
<1>4. ASSUME FillBuffer, UNCHANGED net PROVE IInv'
  <2>1. PICK n \in ReadLengths(Room) :
          /\ buffer' = buffer \o SubSeq(input, 1, n)
          /\ input' = SubSeq(input, n + 1, Len(input))
          /\ at_end' = SeesEnd(n)
    BY <1>4 DEF FillBuffer
  <2>2. n \in 0 .. Len(input) /\ n <= BufferSize - Len(buffer)
    BY <1>3, ReadLengthsType DEF Room
  <2>3. /\ SubSeq(input, 1, n) \in Seq(Byte) /\ Len(SubSeq(input, 1, n)) = n
        /\ SubSeq(input, n + 1, Len(input)) \in Seq(Byte)
    BY <1>3, <2>2, ReadPieces
  <2>4. buffer' \in Seq(Byte) /\ Len(buffer') = Len(buffer) + n
    BY <1>3, <2>1, <2>3
  <2>5. Len(buffer') <= BufferSize
    BY <1>3, <2>2, <2>4
  <2>6. at_end' \in BOOLEAN
    BY <2>1 DEF SeesEnd
  <2>7. TalkerInv'
    BY <1>1, <1>4, <2>1, <2>3, <2>4, <2>5, <2>6
       DEF FillBuffer, IInv, TalkerInv, SourceTypeOK, CvfTypeOK, Stages
  <2> QED BY <1>1, <1>2, <1>4, <2>7, QuietIInv DEF FillBuffer, listenerVars, queueVars
<1>5. ASSUME Break \/ Die \/ NalTooLong, UNCHANGED net PROVE IInv'
  <2>1. /\ UNCHANGED <<stream, input, carried, cvfVars>>
        /\ stage' \in Stages
    BY <1>5 DEF Break, Die, NalTooLong, Stages
  <2>2. TalkerInv'
    BY <1>1, <2>1 DEF IInv, TalkerInv, SourceTypeOK, CvfTypeOK, cvfVars
  <2> QED BY <1>1, <1>2, <1>5, <2>1, <2>2, QuietIInv DEF listenerVars, queueVars
<1>6. ASSUME SendNal, Sends PROVE IInv'
  <2>1. /\ ~NoNal /\ Len(Nal) <= DataLen /\ carried' = Append(carried, Nal)
        /\ buffer' = Rest /\ UNCHANGED <<stream, input, stage, at_end>>
    BY <1>6 DEF SendNal, CanCut
  <2>2. /\ Nal \in Seq(Byte) /\ Rest \in Seq(Byte) /\ Len(Rest) = Len(buffer) - End
        /\ End \in Nat
    BY <1>3, <2>1, CutPieces, CutPlaces
  <2>3. Len(buffer') <= BufferSize /\ buffer' \in Seq(Byte)
    BY <1>3, <2>1, <2>2
  <2>4. carried \in Seq(Seq(Byte)) /\ carried' \in Seq(Seq(Byte))
    BY <2>1, <2>2 DEF IInv, TalkerInv, SourceTypeOK
  <2>5. TalkerInv'
    BY <1>1, <2>1, <2>3, <2>4 DEF IInv, TalkerInv, SourceTypeOK, CvfTypeOK
  <2> QED BY <1>1, <1>2, <1>6, <2>1, <2>2, <2>5, SendIInv
<1> QED BY <1>4, <1>5, <1>6 DEF CvfTalks

LEMMA SendToFailsIInv ==
  ASSUME IInv, SendToFails PROVE IInv'
<1>1. /\ format' = format /\ Fault("send")
      /\ UNCHANGED <<listenerVars, now, net, lost, presented>>
  BY DEF SendToFails
<1>2. TimerInv' /\ WorldInv'
  BY <1>1, FaultType DEF IInv, TimerInv, WorldInv, listenerVars, queueVars
<1>3. UNCHANGED <<stream, input, carried, cvfVars, dbc>> /\ stage' = "exit 1"
  BY DEF SendToFails, SendFails, PacketFails
<1>4. TalkerInv'
  BY <1>1, <1>3 DEF IInv, TalkerInv, SourceTypeOK, CvfTypeOK, cvfVars, Stages
<1> QED BY <1>1, <1>2, <1>3, <1>4, QuietIInv DEF listenerVars, queueVars

-----------------------------------------------------------------------------
\* The listener.

\* What Head and Tail of the queue, or of the network are.
LEMMA TailElements ==
  ASSUME NEW S, NEW s \in Seq(S), s # <<>>
  PROVE  /\ Len(s) \in Nat /\ Len(s) >= 1 /\ Head(s) = s[1] /\ s[1] \in S
         /\ Tail(s) \in Seq(S) /\ Len(Tail(s)) = Len(s) - 1
         /\ \A i \in 1 .. Len(Tail(s)) : Tail(s)[i] = s[i + 1] /\ i + 1 \in 1 .. Len(s)
BY EmptySeq

LEMMA PollReturnsIInv ==
  ASSUME IInv, PollReturns PROVE IInv'
<1>1. PICK received \in BOOLEAN : CvfPoll(received, now)
  BY DEF PollReturns, IecPoll
<1>2. /\ ready' = (IF received THEN {"sk"} ELSE {})
                     \cup (IF Expired(now) THEN {"timer"} ELSE {})
      /\ UNCHANGED <<running, samples, timer, expected_dbc, complaint>>
  BY <1>1 DEF CvfPoll, Poll
<1>3. TimerInv'
  BY <1>2 DEF Expired, IInv, TimerInv
<1>4. UNCHANGED <<talkerVars, format, now, net, lost, faults, presented>>
  BY DEF PollReturns
<1>5. TalkerInv' /\ WorldInv'
  BY <1>2, <1>4 DEF IInv, TalkerInv, WorldInv, SourceTypeOK, CvfTypeOK, talkerVars,
                    sourceVars, cvfVars
<1> QED
  BY <1>2, <1>3, <1>4, <1>5, QuietIInv DEF talkerVars, sourceVars

\* One more piece in the queue.
LEMMA QueueOneMore ==
  ASSUME NEW first \in Nat, NEW sizes, samples \in Seq(Entry),
         Written(samples, presented, first, sizes),
         NEW entry \in Entry, entry.id = first + 1, entry.len = sizes[first + 1]
  PROVE  Written(Append(samples, entry), presented, first + 1, sizes)
<1> DEFINE q == Append(samples, entry)
<1>1. /\ Len(samples) \in Nat /\ Len(q) = Len(samples) + 1
      /\ q[Len(samples) + 1] = entry
      /\ \A i \in 1 .. Len(samples) : q[i] = samples[i]
  OBVIOUS
<1> HIDE DEF q
<1>2. \A i \in 1 .. Len(q) :
         \/ i \in 1 .. Len(samples) /\ q[i] = samples[i]
         \/ i = Len(samples) + 1 /\ q[i] = entry
  <2>1. \A n \in Nat : \A i \in 1 .. n + 1 : i \in 1 .. n \/ i = n + 1
    OBVIOUS
  <2>2. \A i \in 1 .. Len(q) : i \in 1 .. Len(samples) \/ i = Len(samples) + 1
    <3>1. Len(samples) \in Nat /\ Len(q) = Len(samples) + 1
      BY <1>1
    <3> QED BY <2>1, <3>1
  <2> SUFFICES ASSUME NEW i \in 1 .. Len(q)
               PROVE  \/ i \in 1 .. Len(samples) /\ q[i] = samples[i]
                      \/ i = Len(samples) + 1 /\ q[i] = entry
    OBVIOUS
  <2>3. CASE i \in 1 .. Len(samples)
    BY <1>1, <2>3
  <2>4. CASE i = Len(samples) + 1
    BY <1>1, <2>4
  <2> QED BY <2>2, <2>3, <2>4
<1>3. \A i \in 1 .. Len(q) : q[i].id \in 1 .. first + 1 /\ q[i].len = sizes[q[i].id]
  BY <1>2 DEF Written
<1>4. \A i \in 1 .. Len(presented) :
         presented[i].id \in 1 .. first + 1 /\ presented[i].len = sizes[presented[i].id]
  BY DEF Written
<1>5. ASSUME NEW i \in 1 .. Len(q), NEW j \in 1 .. Len(q), i < j
      PROVE  q[i].id < q[j].id
  <2>1. i \in 1 .. Len(samples) /\ q[i] = samples[i]
    BY <1>1, <1>2, <1>5
  <2>2. CASE j \in 1 .. Len(samples)
    BY <2>1, <2>2, <1>2, <1>1, <1>5 DEF Written
  <2>3. CASE j = Len(samples) + 1
    <3>1. q[i].id \in 1 .. first
      BY <2>1 DEF Written
    <3>2. q[j].id = first + 1
      BY <2>3, <1>1
    <3> QED BY <3>1, <3>2
  <2> QED BY <2>2, <2>3, <1>2
<1>6. ASSUME NEW i \in 1 .. Len(presented), NEW j \in 1 .. Len(q)
      PROVE  presented[i].id < q[j].id
  <2>1. presented[i].id \in 1 .. first
    BY DEF Written
  <2>2. CASE j \in 1 .. Len(samples) /\ q[j] = samples[j]
    BY <2>2 DEF Written
  <2>3. CASE j = Len(samples) + 1 /\ q[j] = entry
    BY <2>1, <2>3
  <2> QED BY <2>2, <2>3, <1>2
<1> QED BY <1>3, <1>4, <1>5, <1>6 DEF Written, q

\* get_presentation_time() never comes before the epoch.
LEMMA PresentationTimeType ==
  ASSUME NEW avtp_time \in Nat, NEW t \in Nat
  PROVE  PresentationTime(avtp_time, t) \in Nat
<1> DEFINE r == t % Wrap
           q == t \div Wrap
<1>1. Wrap \in Nat \ {0}
  BY Constants
<1>2. r \in 0 .. Wrap - 1 /\ q \in Int /\ t = Wrap * q + r
  BY <1>1, DivMod
<1> HIDE DEF r, q
<1>3. t - r >= 0
  <2>1. t - r = Wrap * q
    BY <1>1, <1>2
  <2>2. q >= 0
    <3>1. ASSUME q <= -1 PROVE FALSE
      <4>1. Wrap * q <= Wrap * (-1)
        BY <1>1, <1>2, <3>1
      <4>2. t < 0
        BY <1>1, <1>2, <4>1
      <4> QED BY <4>2
    <3> QED BY <1>2, <3>1
  <2> QED BY <1>1, <1>2, <2>1, <2>2
<1>4. t - r + avtp_time \in Nat /\ t - r + avtp_time + Wrap \in Nat
  BY <1>1, <1>2, <1>3
<1> QED BY <1>4 DEF PresentationTime, r

\* The listener takes what is of the stream, as an entry of the length the PDU
\* gives it, and nothing else.
LEMMA Accepted ==
  ASSUME IInv, Receive, NEW pdu \in Pdus(carried), pdu = Head(net)
  PROVE  IF Genuine(pdu)
         THEN \E entry \in Entry :
                /\ samples' = Append(samples, entry)
                /\ entry.id = pdu.id
                /\ format = "iec" => entry.len = TsLen
                /\ format = "cvf" => entry.len = H264DataLen(pdu)
                /\ timer' \in {timer, entry.tspec}
                /\ IF format = "iec" THEN /\ expected_dbc' = NextDbc(pdu)
                                          /\ complaint' \in BOOLEAN
                                     ELSE UNCHANGED <<expected_dbc, complaint>>
         ELSE UNCHANGED <<samples, timer, expected_dbc, complaint>>
<1>1. /\ format \in {"cvf", "iec"} /\ now \in Nat /\ pdu \in Pdu
      /\ format = "iec" => pdu \in IecPdus
      /\ format = "cvf" => pdu \in CvfPdus(carried)
  BY DEF IInv, TalkerInv, WorldInv, Pdus, IecPdus, CvfPdus
<1>2. pdu.id \in Nat /\ pdu.ptime \in Nat /\ pdu.avtp_time \in Nat /\ pdu.len \in Nat
  BY <1>1 DEF Pdu
<1>3. PresentationTime(pdu.avtp_time, now) \in Nat
  BY <1>1, <1>2, PresentationTimeType
<1>4. CASE format = "iec"
  <2>1. IecNewPacket(pdu, now)
    BY <1>4 DEF Receive
  <2>2. IecAccepts(pdu) <=> Genuine(pdu)
    <3>1. "none" \notin IecChecked
      BY DEF IecChecked
    <3> QED BY <1>1, <1>4, <3>1 DEF IecPdus, IecAccepts, Genuine
  <2>3. CASE Genuine(pdu)
    <3> DEFINE entry == [id    |-> pdu.id,
                         ptime |-> pdu.ptime,
                         len   |-> pdu.room,
                         tspec |-> PresentationTime(pdu.avtp_time, now)]
    <3>1. /\ samples' = Append(samples, entry) /\ timer' \in {timer, entry.tspec}
          /\ expected_dbc' = NextDbc(pdu) /\ complaint' = (pdu.dbc # expected_dbc)
      BY <2>1, <2>2, <2>3 DEF IecNewPacket, SchedulePacket, ScheduleSample
    <3>2. entry \in Entry
      <4>1. pdu.room \in 0 .. DataLens - 1
        BY <1>1, <1>4, <2>3, Constants DEF IecPdus
      <4> QED BY <1>2, <1>3, <4>1 DEF Entry
    <3>3. entry.len = TsLen /\ entry.id = pdu.id
      BY <1>1, <1>4, <2>3 DEF IecPdus
    <3>4. complaint' \in BOOLEAN
      BY <3>1
    <3> HIDE DEF entry
    <3> QED BY <1>4, <2>3, <3>1, <3>2, <3>3, <3>4
  <2>4. CASE ~Genuine(pdu)
    BY <2>1, <2>2, <2>4 DEF IecNewPacket, DropPacket
  <2> QED BY <2>3, <2>4
<1>5. CASE format = "cvf"
  <2>1. CvfNewPacket(pdu, now)
    BY <1>5 DEF Receive
  <2>2. CvfAccepts(pdu) <=> Genuine(pdu)
    <3>1. "none" \notin CvfChecked
      BY DEF CvfChecked
    <3> QED BY <1>1, <1>5, <3>1 DEF CvfPdus, CvfAccepts, Genuine
  <2>3. CASE Genuine(pdu)
    <3> DEFINE entry == [id    |-> pdu.id,
                         ptime |-> pdu.ptime,
                         len   |-> H264DataLen(pdu),
                         tspec |-> PresentationTime(pdu.avtp_time, now)]
    <3>1. /\ samples' = Append(samples, entry) /\ timer' \in {timer, entry.tspec}
          /\ UNCHANGED <<expected_dbc, complaint>>
      BY <2>1, <2>2, <2>3 DEF CvfNewPacket, ScheduleNal, ScheduleSample
    <3>2. entry \in Entry
      <4>1. pdu.len - SubHeader \in Int /\ DataLens \in Nat \ {0}
        BY <1>2, Constants
      <4>2. H264DataLen(pdu) \in 0 .. DataLens - 1
        BY <4>1, DivMod DEF H264DataLen
      <4> QED BY <1>2, <1>3, <4>2 DEF Entry
    <3>3. entry.len = H264DataLen(pdu) /\ entry.id = pdu.id
      OBVIOUS
    <3> HIDE DEF entry
    <3> QED BY <1>5, <2>3, <3>1, <3>2, <3>3
  <2>4. CASE ~Genuine(pdu)
    BY <2>1, <2>2, <2>4 DEF CvfNewPacket, DropPacket
  <2> QED BY <2>3, <2>4
<1> QED BY <1>1, <1>4, <1>5

\* A datagram of something else changes no more than the network.
LEMMA ReceiveIInv ==
  ASSUME IInv, Receive PROVE IInv'
<1>1. /\ net # <<>> /\ net' = Tail(net)
      /\ UNCHANGED <<talkerVars, format, now, lost, faults, presented>>
  BY DEF Receive
<1>2. PICK first \in Nat : first <= Len(carried) /\ ListenerInv(first)
  BY DEF IInv
<1>3. carried \in Seq(Seq(Byte)) /\ Len(carried) \in Nat /\ format \in {"cvf", "iec"}
  BY DEF IInv, TalkerInv, SourceTypeOK
<1>4. TalkerInv' /\ now' \in Nat /\ lost' \in Nat /\ faults' \in Seq(FaultKinds)
      /\ complaint \in BOOLEAN /\ lost \in Nat
  BY <1>1 DEF IInv, TalkerInv, WorldInv, SourceTypeOK, CvfTypeOK, talkerVars,
              sourceVars, cvfVars
<1>5. /\ samples \in Seq(Entry) /\ timer \in Nat \cup {NoTimer}
      /\ timer # NoTimer => samples # <<>>
  BY DEF IInv, TimerInv
<1>6. running' = running /\ ready' = ready \ {"sk"}
      /\ running \in BOOLEAN /\ ready \subseteq {"sk", "timer"}
      /\ ("timer" \in ready => samples # <<>>)
  BY DEF Receive, CvfNewPacket, IecNewPacket, DropPacket, IInv, TimerInv
<1> DEFINE pdu == Head(net)
<1>7. pdu \in Pdus(carried)
  BY <1>1, <1>2, TailElements DEF ListenerInv, InOrder
<1>8. carried' = carried /\ (Pdus(carried))' = Pdus(carried)
      /\ (Sizes(carried))' = Sizes(carried)
  BY <1>1 DEF Pdus, Sizes, talkerVars, sourceVars
<1>9. CASE Genuine(pdu)
  <2>1. /\ pdu.id = first + 1 /\ first + 1 <= Len(carried)
        /\ InOrder(Tail(net), first + 1, Len(carried), Pdus(carried))
    BY <1>1, <1>2, <1>3, <1>9, TakenInOrder DEF ListenerInv
  <2> HIDE DEF pdu
  <2>2. PICK entry \in Entry :
          /\ samples' = Append(samples, entry)
          /\ entry.id = pdu.id
          /\ format = "iec" => entry.len = TsLen
          /\ format = "cvf" => entry.len = H264DataLen(pdu)
          /\ timer' \in {timer, entry.tspec}
          /\ IF format = "iec" THEN /\ expected_dbc' = NextDbc(pdu)
                                    /\ complaint' \in BOOLEAN
                               ELSE UNCHANGED <<expected_dbc, complaint>>
    BY <1>7, <1>9, Accepted DEF pdu
  <2>3. entry.len = Sizes(carried)[first + 1]
    <3>1. first + 1 \in 1 .. Len(carried)
      BY <1>3, <2>1
    <3>2. Sizes(carried)[first + 1] = IF format = "iec" THEN TsLen
                                                        ELSE Len(carried[first + 1])
      BY <3>1 DEF Sizes
    <3>3. format = "cvf" => H264DataLen(pdu) = Len(carried[first + 1])
      BY <1>7, <1>9, <2>1 DEF Pdus, CvfPdus
    <3> QED BY <1>3, <2>2, <3>2, <3>3
  <2>4. Written(samples, presented, first, Sizes(carried))
    BY <1>2 DEF ListenerInv
  <2>5. Written(samples', presented, first + 1, Sizes(carried))
    BY <1>5, <2>1, <2>2, <2>3, <2>4, QueueOneMore
  <2>6. TimerInv'
    <3>1. samples' \in Seq(Entry) /\ samples' # <<>>
      BY <1>5, <2>2
    <3>2. timer' \in Nat \cup {NoTimer}
      BY <1>5, <2>2 DEF Entry
    <3> QED BY <1>6, <3>1, <3>2 DEF TimerInv
  <2>7. WorldInv'
    BY <1>4, <2>2 DEF WorldInv
  <2>8. expected_dbc' = IF format = "iec" THEN (8 * ((first + 1) - lost)) % Dbcs ELSE 0
    <3>1. expected_dbc = IF format = "iec" THEN (8 * (first - lost)) % Dbcs ELSE 0
      BY <1>2 DEF ListenerInv
    <3>2. first - lost \in Int /\ (first - lost) + 1 = (first + 1) - lost
      BY <1>4
    <3>3. CASE format = "iec"
      BY <2>2, <3>1, <3>2, <3>3, DbcStep DEF NextDbc
    <3>4. CASE format # "iec"
      BY <2>2, <3>1, <3>4
    <3> QED BY <3>3, <3>4
  <2>9. ListenerInv(first + 1)' /\ first + 1 \in Nat /\ first + 1 <= Len(carried')
    BY <1>1, <1>8, <2>1, <2>5, <2>8 DEF ListenerInv
  <2> QED BY <1>4, <2>6, <2>7, <2>9 DEF IInv
<1>10. CASE ~Genuine(pdu)
  <2>1. UNCHANGED <<samples, timer, expected_dbc, complaint>>
    BY <1>7, <1>10, Accepted
  <2>2. InOrder(Tail(net), first, Len(carried), Pdus(carried))
    BY <1>1, <1>2, <1>3, <1>10, DroppedInOrder DEF ListenerInv
  <2> HIDE DEF pdu
  <2>3. ListenerInv(first)' /\ first <= Len(carried')
    BY <1>1, <1>2, <1>8, <2>1, <2>2 DEF ListenerInv
  <2>4. TimerInv' /\ WorldInv'
    BY <1>4, <1>5, <1>6, <2>1 DEF TimerInv, WorldInv
  <2> QED BY <1>4, <2>3, <2>4 DEF IInv
<1> QED BY <1>9, <1>10

\* The head of the queue is written.
PresentStep(queue, out) == Append(out, [id |-> Head(queue).id, len |-> Head(queue).len])

LEMMA QueueOneLess ==
  ASSUME NEW first \in Nat, NEW sizes, samples \in Seq(Entry), samples # <<>>,
         Written(samples, presented, first, sizes)
  PROVE  Written(Tail(samples), PresentStep(samples, presented), first, sizes)
<1> DEFINE q == Tail(samples)
           o == PresentStep(samples, presented)
<1>1. /\ Len(samples) \in Nat /\ Len(samples) >= 1 /\ Head(samples) = samples[1]
      /\ samples[1] \in Entry
      /\ \A i \in 1 .. Len(q) : q[i] = samples[i + 1] /\ i + 1 \in 1 .. Len(samples)
  BY TailElements
<1>2. 1 \in 1 .. Len(samples)
  BY <1>1
<1>3. samples[1].id \in 1 .. first /\ samples[1].len = sizes[samples[1].id]
  BY <1>2 DEF Written
<1> DEFINE e == [id |-> samples[1].id, len |-> samples[1].len]
<1>4. e \in Output /\ e.id = samples[1].id /\ e.len = sizes[e.id]
  <2>1. samples[1].len \in Nat
    BY <1>1, Constants DEF Entry
  <2> QED BY <1>3, <2>1 DEF Output
<1>5. presented \in Seq(Output) /\ o = Append(presented, e)
  BY <1>1 DEF Written, PresentStep
<1> HIDE DEF e
<1>6. /\ o \in Seq(Output) /\ Len(presented) \in Nat /\ Len(o) = Len(presented) + 1
      /\ \A i \in 1 .. Len(o) :
           \/ i \in 1 .. Len(presented) /\ o[i] = presented[i]
           \/ i = Len(presented) + 1 /\ o[i] = e
  <2> HIDE DEF o
  <2> QED BY <1>4, <1>5
<1> HIDE DEF q, o
<1>7. \A i \in 1 .. Len(q) : q[i].id \in 1 .. first /\ q[i].len = sizes[q[i].id]
  BY <1>1 DEF Written
<1>8. \A i \in 1 .. Len(o) : o[i].id \in 1 .. first /\ o[i].len = sizes[o[i].id]
  BY <1>3, <1>4, <1>6 DEF Written
<1>9. ASSUME NEW i \in 1 .. Len(q), NEW j \in 1 .. Len(q), i < j
      PROVE  q[i].id < q[j].id
  <2>1. i + 1 < j + 1
    BY <1>9
  <2> QED BY <2>1, <1>1 DEF Written
<1>10. ASSUME NEW i \in 1 .. Len(o), NEW j \in 1 .. Len(o), i < j
       PROVE  o[i].id < o[j].id
  <2>1. i \in 1 .. Len(presented) /\ o[i] = presented[i]
    BY <1>6, <1>10
  <2>2. CASE j \in 1 .. Len(presented) /\ o[j] = presented[j]
    BY <2>1, <2>2, <1>10 DEF Written
  <2>3. CASE j = Len(presented) + 1 /\ o[j] = e
    BY <2>1, <2>3, <1>2, <1>4 DEF Written
  <2> QED BY <2>2, <2>3, <1>6
<1>11. ASSUME NEW i \in 1 .. Len(o), NEW j \in 1 .. Len(q)
       PROVE  o[i].id < q[j].id
  <2>1. q[j] = samples[j + 1] /\ j + 1 \in 1 .. Len(samples) /\ 1 < j + 1
    BY <1>1
  <2>2. CASE i \in 1 .. Len(presented) /\ o[i] = presented[i]
    BY <2>1, <2>2 DEF Written
  <2>3. CASE o[i] = e
    BY <2>1, <2>3, <1>2, <1>4 DEF Written
  <2> QED BY <2>2, <2>3, <1>6
<1> QED BY <1>6, <1>7, <1>8, <1>9, <1>10, <1>11 DEF Written, q, o

LEMMA PresentIInv ==
  ASSUME IInv, Present PROVE IInv'
<1>1. /\ Timeout /\ presented' = PresentStep(samples, presented)
      /\ UNCHANGED <<talkerVars, format, now, net, lost, faults, expected_dbc, complaint>>
  BY DEF Present, PresentStep, IecTimeout, CvfTimeout
<1>2. samples \in Seq(Entry) /\ samples # <<>> /\ running \in BOOLEAN
  BY <1>1 DEF IInv, TimerInv, Timeout
<1>3. samples' = Tail(samples) /\ ready' = {} /\ timer' = Rearmed /\ running' = running
  BY <1>1 DEF Timeout
<1>4. TimerInv'
  <2> DEFINE t == Tail(samples)
  <2>1. Len(samples) \in Nat /\ t \in Seq(Entry) /\ Len(t) = Len(samples) - 1
    BY <1>2, TailElements
  <2>2. /\ timer' # NoTimer => Len(samples) > 1
        /\ timer' \in Nat \cup {NoTimer}
    <3>1. Len(samples) > 1 => samples[2] \in Entry
      BY <1>2, <2>1
    <3> QED BY <1>3, <3>1 DEF Rearmed, Entry
  <2>3. Len(samples) > 1 => t # <<>>
    <3> HIDE DEF t
    <3>1. Len(samples) > 1 => Len(t) # 0
      BY <2>1
    <3> QED BY <3>1
  <2> QED BY <2>1, <2>2, <2>3, <1>2, <1>3 DEF TimerInv
<1>5. PICK first \in Nat : first <= Len(carried) /\ ListenerInv(first)
  BY DEF IInv
<1>6. Written(samples', presented', first, Sizes(carried))
  BY <1>1, <1>2, <1>3, <1>5, QueueOneLess DEF ListenerInv
<1>7. carried' = carried /\ (Pdus(carried))' = Pdus(carried)
      /\ (Sizes(carried))' = Sizes(carried)
  BY <1>1 DEF Pdus, Sizes, talkerVars, sourceVars
<1>8. ListenerInv(first)' /\ first <= Len(carried')
  BY <1>1, <1>5, <1>6, <1>7 DEF ListenerInv
<1>9. TalkerInv' /\ WorldInv'
  BY <1>1 DEF IInv, TalkerInv, WorldInv, SourceTypeOK, CvfTypeOK, talkerVars,
              sourceVars, cvfVars
<1> QED BY <1>4, <1>8, <1>9 DEF IInv

\* The process leaves its loop, and its queue is lost with it.
LEMMA LeavesIInv ==
  ASSUME IInv, SocketFails \/ PipeFails PROVE IInv'
<1>1. /\ Leave /\ UNCHANGED <<talkerVars, format, now, net, lost, presented, expected_dbc,
                              complaint>>
      /\ Fault("socket") \/ Fault("pipe")
  BY DEF SocketFails, PipeFails, LeaveLoop
<1>2. samples' = <<>> /\ timer' = NoTimer /\ ready' = {} /\ running' = FALSE
  BY <1>1 DEF Leave
<1>3. TimerInv'
  <2>1. <<>> \in Seq(Entry)
    OBVIOUS
  <2>2. samples' \in Seq(Entry) /\ timer' \in Nat \cup {NoTimer} /\ running' \in BOOLEAN
    BY <1>2, <2>1
  <2> QED BY <1>2, <2>2 DEF TimerInv
<1>4. TalkerInv' /\ WorldInv'
  <2>1. faults' \in Seq(FaultKinds)
    BY <1>1, FaultType DEF IInv, WorldInv
  <2> QED BY <1>1, <2>1 DEF IInv, TalkerInv, WorldInv, SourceTypeOK, CvfTypeOK, talkerVars,
              sourceVars, cvfVars
<1> QED BY <1>1, <1>2, <1>3, <1>4, QuietIInv DEF talkerVars, sourceVars

-----------------------------------------------------------------------------
\* The network.

LEMMA LoseIInv ==
  ASSUME IInv, Lose PROVE IInv'
<1>1. /\ net # <<>> /\ Genuine(Head(net)) /\ net' = Tail(net) /\ lost' = lost + 1
      /\ UNCHANGED <<talkerVars, listenerVars, format, now, faults, presented>>
  BY DEF Lose, Genuine
<1>2. PICK first \in Nat : first <= Len(carried) /\ ListenerInv(first)
  BY DEF IInv
<1>3. lost \in Nat /\ Len(carried) \in Nat
  BY DEF IInv, TalkerInv, WorldInv, SourceTypeOK
<1>4. first + 1 <= Len(carried)
      /\ InOrder(Tail(net), first + 1, Len(carried), Pdus(carried))
  BY <1>1, <1>2, <1>3, TakenInOrder DEF ListenerInv
<1>5. expected_dbc = IF format = "iec" THEN (8 * ((first + 1) - lost')) % Dbcs ELSE 0
  <2>1. (first + 1) - (lost + 1) = first - lost
    BY <1>3
  <2> QED BY <2>1, <1>1, <1>2 DEF ListenerInv
<1>6. Written(samples, presented, first + 1, Sizes(carried))
  <2>1. Written(samples, presented, first, Sizes(carried))
    BY <1>2 DEF ListenerInv
  <2>2. \A x : x \in 1 .. first => x \in 1 .. first + 1
    OBVIOUS
  <2> QED BY <2>1, <2>2 DEF Written
<1>7. carried' = carried /\ (Pdus(carried))' = Pdus(carried)
      /\ (Sizes(carried))' = Sizes(carried)
  BY <1>1 DEF Pdus, Sizes, talkerVars, sourceVars
<1>8. ListenerInv(first + 1)' /\ first + 1 \in Nat /\ first + 1 <= Len(carried')
  BY <1>1, <1>4, <1>5, <1>6, <1>7 DEF ListenerInv, listenerVars, queueVars
<1>9. TalkerInv' /\ TimerInv' /\ WorldInv'
  BY <1>1, <1>3 DEF IInv, TalkerInv, TimerInv, WorldInv, SourceTypeOK, CvfTypeOK,
                    talkerVars, sourceVars, cvfVars, listenerVars, queueVars
<1> QED BY <1>8, <1>9 DEF IInv

LEMMA StrayIInv ==
  ASSUME IInv, Stray PROVE IInv'
<1>1. /\ UNCHANGED <<talkerVars, listenerVars, format, now, lost, presented>>
      /\ Fault("foreign")
  BY DEF Stray
<1>2. PICK field \in {"stream_id"} \cup (IF format = "cvf" THEN {"format"} ELSE {"tsf"}) :
        net' = Append(net, [id |-> 0, odd |-> field, len |-> 0, room |-> 0,
                            dbc |-> 0, ptime |-> now, avtp_time |-> 0,
                            due |-> now + TransitTime])
  BY DEF Stray
<1> DEFINE pdu == [id |-> 0, odd |-> field, len |-> 0, room |-> 0, dbc |-> 0,
                   ptime |-> now, avtp_time |-> 0, due |-> now + TransitTime]
<1>3. format \in {"cvf", "iec"} /\ now \in Nat /\ now + TransitTime \in Nat
  BY Constants DEF IInv, TalkerInv, WorldInv
<1>4. field \in IF format = "iec" THEN IecChecked ELSE CvfChecked
  BY <1>3 DEF IecChecked, CvfChecked
<1>5. field # "none"
  BY <1>3
<1>6. pdu \in Pdu /\ pdu.odd = field
  BY <1>3, <1>4 DEF Pdu
<1> HIDE DEF pdu
<1>7. pdu \in Pdus(carried) /\ ~Genuine(pdu)
  BY <1>4, <1>5, <1>6 DEF Pdus, IecPdus, CvfPdus, Genuine
<1>8. PICK first \in Nat : first <= Len(carried) /\ ListenerInv(first)
  BY DEF IInv
<1>9. Len(carried) \in Nat
  BY DEF IInv, TalkerInv, SourceTypeOK
<1>10. InOrder(net', first, Len(carried), Pdus(carried))
  <2>1. net' = Append(net, pdu)
    BY <1>2 DEF pdu
  <2> QED BY <2>1, <1>7, <1>8, <1>9, StrayInOrder DEF ListenerInv
<1>11. carried' = carried /\ (Pdus(carried))' = Pdus(carried)
       /\ (Sizes(carried))' = Sizes(carried)
  BY <1>1 DEF Pdus, Sizes, talkerVars, sourceVars
<1>12. ListenerInv(first)' /\ first <= Len(carried')
  BY <1>1, <1>8, <1>10, <1>11 DEF ListenerInv, listenerVars, queueVars
<1>13. TalkerInv' /\ TimerInv' /\ WorldInv'
  BY <1>1, FaultType DEF IInv, TalkerInv, TimerInv, WorldInv, SourceTypeOK, CvfTypeOK,
                    talkerVars, sourceVars, cvfVars, listenerVars, queueVars
<1> QED BY <1>12, <1>13 DEF IInv

-----------------------------------------------------------------------------
\* Every step keeps the invariant, and what follows from it.

LEMMA NextIInv == IInv /\ [Next]_vars => IInv'
<1> SUFFICES ASSUME IInv, [Next]_vars PROVE IInv'
  OBVIOUS
<1>1. ASSUME UNCHANGED <<talkerVars, listenerVars, format, net, lost, faults, presented>>,
             now' \in Nat
      PROVE  IInv'
  <2>1. TalkerInv' /\ TimerInv' /\ WorldInv'
    BY <1>1 DEF IInv, TalkerInv, TimerInv, WorldInv, SourceTypeOK, CvfTypeOK,
                talkerVars, sourceVars, cvfVars, listenerVars, queueVars
  <2> QED BY <1>1, <2>1, QuietIInv DEF talkerVars, sourceVars, listenerVars, queueVars
<1>2. now \in Nat /\ now + 1 \in Nat
  BY DEF IInv, WorldInv
<1>3. CASE UNCHANGED vars
  BY <1>1, <1>2, <1>3 DEF vars
<1>4. CASE Tick
  BY <1>1, <1>2, <1>4 DEF Tick
<1>5. CASE Finished
  BY <1>1, <1>2, <1>5 DEF Finished, vars
<1> QED
  BY <1>3, <1>4, <1>5, CvfTalksIInv, IecTalksIInv, ReadFailsIInv, SendToFailsIInv,
     PollReturnsIInv, ReceiveIInv, PresentIInv, LeavesIInv, LoseIInv, StrayIInv
     DEF Next

\* Every variable of the talkers, the network and the listeners keeps its type:
\* fill_buffer() and process_nal() never take buffer_level past the buffer's end,
\* and an entry is as long as 16 bits of stream_data_len can say.
THEOREM Typed == Spec => []TypeOK
<1>1. IInv => TypeOK
  <2> SUFFICES ASSUME IInv PROVE TypeOK
    OBVIOUS
  <2>1. PICK first \in Nat : first <= Len(carried) /\ ListenerInv(first)
    BY DEF IInv
  <2>2. Dbcs \in Nat \ {0} /\ DbcRange = Dbcs /\ \A x \in Int : x % Dbcs \in 0 .. Dbcs - 1
    BY Constants, DivMod
  <2>3. lost \in Nat /\ Len(carried) \in Nat
    BY DEF IInv, TalkerInv, WorldInv, SourceTypeOK
  <2>4. 8 * Len(carried) \in Int /\ 8 * (first - lost) \in Int /\ 0 \in 0 .. Dbcs - 1
    BY <2>2, <2>3
  <2>5. IecTypeOK
    BY <2>2, <2>4 DEF IInv, TalkerInv, IecTypeOK
  <2>6. expected_dbc \in 0 .. Dbcs - 1
    BY <2>1, <2>2, <2>4 DEF ListenerInv
  <2>7. net \in Seq(Pdu)
    <3>1. net \in Seq(Pdus(carried)) /\ Pdus(carried) \subseteq Pdu
      BY <2>1 DEF ListenerInv, InOrder, Pdus, IecPdus, CvfPdus
    <3> QED BY <3>1, SeqMonotonic
  <2>8. presented \in Seq([id : Nat, len : Nat])
    BY <2>1 DEF ListenerInv, Written, Output
  <2>9. samples \in Seq([id : Nat, ptime : Nat, tspec : Nat, len : 0 .. DataLens - 1])
    BY DEF IInv, TimerInv, Entry
  <2> QED BY <2>5, <2>6, <2>7, <2>8, <2>9 DEF IInv, TalkerInv, TimerInv, WorldInv, TypeOK
<1> QED BY <1>1, InitIInv, NextIInv, PTL DEF Spec

\* What a listener writes are pieces the talker sent, whole and in the order they
\* were sent in, whatever is lost on the way and whoever fails (schedule_nal(),
\* schedule_packet() and timeout() of cvf-listener.c and ieciidc-listener.c).
THEOREM ListenerWritesPieces == Spec => []PresentedWhole
<1>1. IInv => PresentedWhole
  <2> SUFFICES ASSUME IInv PROVE PresentedWhole
    OBVIOUS
  <2>1. PICK first \in Nat : first <= Len(carried) /\ ListenerInv(first)
    BY DEF IInv
  <2>2. /\ carried \in Seq(Seq(Byte)) /\ format \in {"cvf", "iec"}
        /\ Written(samples, presented, first, Sizes(carried))
    BY <2>1 DEF IInv, TalkerInv, SourceTypeOK, ListenerInv
  <2>3. DOMAIN carried = 1 .. Len(carried) /\ Len(carried) \in Nat
    BY <2>2
  <2>4. presented \in Seq(Output) /\ DOMAIN presented = 1 .. Len(presented)
        /\ Len(presented) \in Nat
    BY <2>2 DEF Written
  <2>5. ASSUME NEW i \in 1 .. Len(presented)
        PROVE  /\ presented[i].id \in DOMAIN carried
               /\ presented[i].len = IF format = "cvf" THEN Len(carried[presented[i].id])
                                                       ELSE TsLen
               /\ i > 1 => presented[i - 1].id < presented[i].id
    <3>1. presented[i].id \in 1 .. first /\ presented[i].len = Sizes(carried)[presented[i].id]
      BY <2>2 DEF Written
    <3>2. ASSUME i > 1 PROVE presented[i - 1].id < presented[i].id
      <4>1. i - 1 \in 1 .. Len(presented) /\ i - 1 < i
        BY <3>2, <2>4
      <4> QED BY <4>1, <2>2 DEF Written
    <3>3. presented[i].id \in 1 .. Len(carried)
      BY <3>1, <2>1, <2>3
    <3>4. Sizes(carried)[presented[i].id] =
            IF format = "iec" THEN TsLen ELSE Len(carried[presented[i].id])
      BY <3>3 DEF Sizes
    <3> QED BY <3>1, <3>2, <3>3, <3>4, <2>2, <2>3
  <2> QED BY <2>4, <2>5 DEF PresentedWhole
<1> QED BY <1>1, InitIInv, NextIInv, PTL DEF Spec

\* With lost blocks in between, two counters agree only if those have wrapped.
LEMMA CountersApart ==
  ASSUME NEW a \in Int, NEW l \in Int
  PROVE  ((8 * a) % Dbcs # (8 * (a - l)) % Dbcs) <=> ((l * 8) % Dbcs # 0)
<1> DEFINE q1 == (8 * a) \div Dbcs
           r1 == (8 * a) % Dbcs
           q2 == (8 * (a - l)) \div Dbcs
           r2 == (8 * (a - l)) % Dbcs
           q3 == (l * 8) \div Dbcs
           r3 == (l * 8) % Dbcs
<1>0. Dbcs \in Nat \ {0}
  BY Constants
<1>1. /\ q1 \in Int /\ q2 \in Int /\ q3 \in Int
      /\ r1 \in 0 .. Dbcs - 1 /\ r2 \in 0 .. Dbcs - 1 /\ r3 \in 0 .. Dbcs - 1
      /\ 8 * a = Dbcs * q1 + r1 /\ 8 * (a - l) = Dbcs * q2 + r2
      /\ l * 8 = Dbcs * q3 + r3
  <2>1. 8 * a \in Int /\ 8 * (a - l) \in Int /\ l * 8 \in Int
    OBVIOUS
  <2> QED BY <2>1, DivMod, <1>0
<1> HIDE DEF q1, r1, q2, r2, q3, r3
<1>2. ASSUME r1 = r2 PROVE r3 = 0
  <2>1. l * 8 = Dbcs * (q1 - q2) + 0
    BY <1>1, <1>2, <1>0
  <2> QED BY <2>1, <1>1, <1>0, ModUnique, q1 - q2 \in Int, 0 \in 0 .. Dbcs - 1 DEF r3
<1>3. ASSUME r3 = 0 PROVE r1 = r2
  <2>1. 8 * a = Dbcs * (q2 + q3) + r2
    BY <1>1, <1>3, <1>0
  <2> QED BY <2>1, <1>1, <1>0, ModUnique, q2 + q3 \in Int DEF r1
<1> QED BY <1>2, <1>3 DEF r1, r2, r3

\* The listener objects to every packet it counts while the blocks of the lost
\* ones are not a whole turn of the counter, and to none otherwise
\* (is_valid_packet() of ieciidc-listener.c).
THEOREM ObjectsAfterLoss == Spec => DbcBlamesEveryLoss
<1>1. IInv /\ [Next]_vars =>
        [expected_dbc' # expected_dbc =>
           complaint' = ((lost * BlocksPerPacket) % Dbcs # 0)]_vars
  <2> SUFFICES ASSUME IInv, [Next]_vars, expected_dbc' # expected_dbc
               PROVE  complaint' = ((lost * BlocksPerPacket) % Dbcs # 0)
    OBVIOUS
  <2>1. Receive /\ format = "iec"
    BY DEF Next, vars, listenerVars, CvfTalks, IecTalks, ReadFails, SendToFails,
           Tick, PollReturns, IecPoll, CvfPoll, Receive, CvfNewPacket, Present,
           IecTimeout, CvfTimeout, SocketFails, PipeFails, LeaveLoop, Lose, Stray,
           Finished
  <2>2. net # <<>> /\ IecNewPacket(Head(net), now)
    BY <2>1 DEF Receive
  <2> DEFINE pdu == Head(net)
  <2>3. IecAccepts(pdu) /\ complaint' = (pdu.dbc # expected_dbc)
    BY <2>2 DEF IecNewPacket
  <2>4. PICK first \in Nat : first <= Len(carried) /\ ListenerInv(first)
    BY DEF IInv
  <2>5. Len(carried) \in Nat /\ lost \in Nat
    BY DEF IInv, TalkerInv, WorldInv, SourceTypeOK
  <2>6. pdu \in IecPdus
    BY <2>1, <2>2, <2>4, TailElements DEF ListenerInv, InOrder, Pdus
  <2>7. Genuine(pdu) /\ pdu.dbc = (8 * (pdu.id - 1)) % Dbcs
    BY <2>3, <2>6 DEF IecPdus, IecAccepts
  <2>10. pdu.id - 1 = first
    <3>1. pdu.id = first + 1
      BY <2>2, <2>4, <2>5, <2>7, TakenInOrder DEF ListenerInv
    <3> QED BY <3>1
  <2>8. expected_dbc = (8 * (first - lost)) % Dbcs
    BY <2>1, <2>4 DEF ListenerInv
  <2>9. (pdu.dbc # expected_dbc) <=> ((lost * 8) % Dbcs # 0)
    BY <2>5, <2>7, <2>8, <2>10, CountersApart
  <2> QED BY <2>3, <2>9 DEF BlocksPerPacket
<1> QED BY <1>1, InitIInv, NextIInv, PTL DEF Spec, DbcBlamesEveryLoss

-----------------------------------------------------------------------------
\* ieciidc-talker sends its input as it comes.

\* What FlattenSeq() computes, up to the n-th of the pieces.
Flattens(pieces, n, f) ==
  f = [i \in 1 .. n |-> IF i = 1 THEN pieces[i] ELSE f[i - 1] \o pieces[i]]

LEMMA FlattensExists ==
  ASSUME NEW pieces, NEW n \in Nat
  PROVE  \E f : Flattens(pieces, n, f)
<1> DEFINE S == {k \in Nat : ~\E f : Flattens(pieces, k, f)}
<1>1. ASSUME S # {} PROVE FALSE
  <2>1. PICK m \in S : \A k \in S : m <= k
    BY <1>1, LeastNatural
  <2>2. m \in Nat
    OBVIOUS
  <2>3. CASE m = 0
    <3> DEFINE e == [i \in 1 .. 0 |-> <<>>]
    <3>1. \A i : i \notin 1 .. 0
      OBVIOUS
    <3>2. Flattens(pieces, 0, e)
      BY <3>1 DEF Flattens
    <3> QED BY <2>1, <2>3, <3>2
  <2>4. CASE m # 0
    <3>1. m - 1 \in Nat /\ m - 1 \notin S
      BY <2>1, <2>2, <2>4
    <3>2. PICK f : Flattens(pieces, m - 1, f)
      BY <3>1
    <3> DEFINE g == [i \in 1 .. m |-> IF i = m
                                      THEN IF i = 1 THEN pieces[i] ELSE f[i - 1] \o pieces[i]
                                      ELSE f[i]]
    <3>3. \A i \in 1 .. m : i # m => i \in 1 .. m - 1
      BY <2>2
    <3>4. \A i \in 1 .. m : i # 1 => i - 1 \in 1 .. m /\ i - 1 # m
      BY <2>2
    <3>5. \A i \in 1 .. m - 1 :
            f[i] = IF i = 1 THEN pieces[i] ELSE f[i - 1] \o pieces[i]
      BY <3>2 DEF Flattens
    <3>6. \A i \in 1 .. m :
            g[i] = IF i = 1 THEN pieces[i] ELSE g[i - 1] \o pieces[i]
      <4> SUFFICES ASSUME NEW i \in 1 .. m
                   PROVE  g[i] = IF i = 1 THEN pieces[i] ELSE g[i - 1] \o pieces[i]
        OBVIOUS
      <4>1. i # 1 => g[i - 1] = f[i - 1]
        BY <3>4
      <4>2. CASE i = m
        BY <4>1, <4>2
      <4>3. CASE i # m
        <5>1. g[i] = f[i]
          BY <4>3
        <5>2. f[i] = IF i = 1 THEN pieces[i] ELSE f[i - 1] \o pieces[i]
          BY <3>3, <3>5, <4>3
        <5> HIDE DEF g
        <5> QED BY <4>1, <5>1, <5>2
      <4> QED BY <4>2, <4>3
    <3>7. g = [i \in 1 .. m |-> g[i]]
      OBVIOUS
    <3> HIDE DEF g
    <3>8. Flattens(pieces, m, g)
      BY <3>6, <3>7 DEF Flattens
    <3> QED BY <2>1, <3>8
  <2> QED BY <2>3, <2>4
<1> QED BY <1>1

\* The first n of both are the same bytes.
SameBytes(s, t, n) == \A i \in 1 .. n : s[i] \in Seq(Byte) /\ t[i] = s[i]

\* Two of them agree on the pieces they have in common, and are of bytes.
LEMMA FlattensUnique ==
  ASSUME NEW s, NEW t, NEW n \in Nat, NEW m \in Nat, n <= m, SameBytes(s, t, n),
         NEW f, NEW g, Flattens(s, n, f), Flattens(t, m, g)
  PROVE  SameBytes(f, g, n)
<1> DEFINE S == {i \in 1 .. n : ~(f[i] \in Seq(Byte) /\ g[i] = f[i])}
<1>1. ASSUME S # {} PROVE FALSE
  <2>1. S \in SUBSET Nat
    OBVIOUS
  <2>2. PICK k \in S : \A i \in S : k <= i
    BY <1>1, <2>1, LeastNatural
  <2>3. k \in 1 .. n /\ k \in 1 .. m
    OBVIOUS
  <2>4. /\ f[k] = IF k = 1 THEN s[k] ELSE f[k - 1] \o s[k]
        /\ g[k] = IF k = 1 THEN t[k] ELSE g[k - 1] \o t[k]
    BY <2>3 DEF Flattens
  <2>5. k # 1 => f[k - 1] \in Seq(Byte) /\ g[k - 1] = f[k - 1]
    <3>1. k # 1 => k - 1 \in 1 .. n /\ ~(k <= k - 1)
      BY <2>3
    <3> QED BY <2>2, <3>1
  <2>6. s[k] \in Seq(Byte) /\ t[k] = s[k]
    BY <2>3 DEF SameBytes
  <2>7. f[k] \in Seq(Byte) /\ g[k] = f[k]
    <3>1. CASE k = 1
      BY <2>4, <2>6, <3>1
    <3>2. CASE k # 1
      BY <2>4, <2>5, <2>6, <3>2, ConcatProperties
    <3> QED BY <3>1, <3>2
  <2> QED BY <2>7
<1> QED BY <1>1 DEF SameBytes

LEMMA FlattenIs ==
  ASSUME NEW pieces, Len(pieces) # 0
  PROVE  FlattenSeq(pieces) = (CHOOSE f : Flattens(pieces, Len(pieces), f))[Len(pieces)]
BY DEF FlattenSeq, Flattens

\* One more piece comes behind all the others.
LEMMA FlattenOneMore ==
  ASSUME NEW pieces \in Seq(Seq(Byte)), NEW piece \in Seq(Byte)
  PROVE  /\ FlattenSeq(pieces) \in Seq(Byte)
         /\ FlattenSeq(Append(pieces, piece)) = FlattenSeq(pieces) \o piece
<1>1. PICK n \in Nat, m \in Nat : n = Len(pieces) /\ m = n + 1
  OBVIOUS
<1> DEFINE more == Append(pieces, piece)
           f == CHOOSE x : Flattens(pieces, n, x)
           g == CHOOSE x : Flattens(more, m, x)
<1>2. Len(more) = m /\ more[m] = piece
  BY <1>1
<1>12. SameBytes(pieces, more, n)
  BY <1>1 DEF SameBytes
<1>3. n <= m /\ m # 0 /\ m - 1 = n /\ m \in 1 .. m /\ (m = 1 <=> n = 0)
      /\ (n # 0 => n \in 1 .. n)
  BY <1>1
<1>4. Flattens(pieces, n, f) /\ Flattens(more, m, g)
  BY FlattensExists
<1>5. FlattenSeq(more) = g[m]
  BY <1>2, <1>3, FlattenIs
<1>6. n # 0 => FlattenSeq(pieces) = f[n]
  BY <1>1, FlattenIs
<1>7. n = 0 => pieces = <<>> /\ FlattenSeq(pieces) = pieces
  BY <1>1, EmptySeq DEF FlattenSeq
<1> HIDE DEF more, f, g
<1>8. SameBytes(f, g, n)
  BY <1>3, <1>4, <1>12, FlattensUnique
<1>9. g[m] = IF m = 1 THEN more[m] ELSE g[m - 1] \o more[m]
  BY <1>3, <1>4 DEF Flattens
<1>10. CASE n = 0
  <2>1. FlattenSeq(pieces) = <<>> /\ <<>> \in Seq(Byte)
    BY <1>7, <1>10
  <2>2. FlattenSeq(more) = piece
    BY <1>2, <1>3, <1>5, <1>9, <1>10
  <2> QED BY <2>1, <2>2, ConcatEmptySeq DEF more
<1>11. CASE n # 0
  <2>1. f[n] \in Seq(Byte) /\ g[n] = f[n] /\ FlattenSeq(pieces) = f[n]
    BY <1>3, <1>6, <1>8, <1>11 DEF SameBytes
  <2>2. g[m] = g[n] \o piece
    BY <1>2, <1>3, <1>9, <1>11
  <2> QED BY <1>5, <2>1, <2>2 DEF more
<1> QED BY <1>10, <1>11

\* Nothing is left out and nothing comes twice.
NothingSkipped == format = "iec" => FlattenSeq(carried) \o input = stream

LEMMA InitNothingSkipped == Init => NothingSkipped
<1> SUFFICES ASSUME Init, format = "iec" PROVE FlattenSeq(carried) \o input = stream
  BY DEF NothingSkipped
<1>1. stream \in Seq(Byte) /\ input = stream /\ carried = <<>>
  BY VideoAssumption DEF Init, SourceInit
<1>2. FlattenSeq(carried) = <<>>
  BY <1>1, EmptySeq DEF FlattenSeq
<1> QED BY <1>1, <1>2, ConcatEmptySeq

LEMMA NextNothingSkipped ==
  IInv /\ NothingSkipped /\ [Next]_vars => NothingSkipped'
<1> SUFFICES ASSUME IInv, NothingSkipped, [Next]_vars, format' = "iec"
             PROVE  FlattenSeq(carried') \o input' = stream'
  BY DEF NothingSkipped
<1>1. /\ carried \in Seq(Seq(Byte)) /\ input \in Seq(Byte)
      /\ FlattenSeq(carried) \in Seq(Byte)
  BY FlattenOneMore, EmptySeq DEF IInv, TalkerInv, SourceTypeOK
<1>2. format = "iec" /\ FlattenSeq(carried) \o input = stream
  <2>1. format' = format
    BY DEF Next, vars, CvfTalks, IecTalks, ReadFails, SendToFails, Tick, PollReturns,
           Receive, Present, SocketFails, PipeFails, Lose, Stray, Finished
  <2> QED BY <2>1 DEF NothingSkipped
<1>3. CASE UNCHANGED <<stream, input, carried>>
  BY <1>2, <1>3
<1>4. CASE SendPacket
  <2>1. PICK n \in ReadLengths(TsLen) \ {0} :
          /\ carried' = Append(carried, SubSeq(input, 1, n))
          /\ input' = SubSeq(input, n + 1, Len(input))
          /\ stream' = stream
    BY <1>4 DEF SendPacket
  <2>2. n \in 0 .. Len(input)
    BY <1>1, <2>1, ReadLengthsType, Constants
  <2>3. SubSeq(input, 1, n) \in Seq(Byte) /\ input' \in Seq(Byte)
    BY <1>1, <2>1, <2>2, ReadPieces
  <2>4. SubSeq(input, 1, n) \o input' = input
    <3>1. /\ Len(input) \in Nat /\ 1 \in 1 .. Len(input) + 1 /\ n \in 1 - 1 .. Len(input)
          /\ Len(input) \in n .. Len(input)
      BY <1>1, <2>2
    <3>2. SubSeq(input, 1, n) \o SubSeq(input, n + 1, Len(input)) = SubSeq(input, 1, Len(input))
      BY <1>1, <3>1, ConcatAdjacentSubSeq
    <3> QED BY <1>1, <2>1, <3>2, SubSeqFull
  <2>5. FlattenSeq(carried') = FlattenSeq(carried) \o SubSeq(input, 1, n)
    BY <1>1, <2>1, <2>3, FlattenOneMore
  <2>6. (FlattenSeq(carried) \o SubSeq(input, 1, n)) \o input'
          = FlattenSeq(carried) \o (SubSeq(input, 1, n) \o input')
    <3> DEFINE x == FlattenSeq(carried)
               y == SubSeq(input, 1, n)
               z == input'
    <3>1. x \in Seq(Byte) /\ y \in Seq(Byte) /\ z \in Seq(Byte)
      BY <1>1, <2>3
    <3> HIDE DEF x, y, z
    <3>2. (x \o y) \o z = x \o (y \o z)
      BY <3>1, ConcatAssociative
    <3> QED BY <3>2 DEF x, y, z
  <2> QED BY <1>2, <2>1, <2>4, <2>5, <2>6
<1>5. CASE SendNothing
  <2>1. carried' = Append(carried, <<>>) /\ UNCHANGED <<stream, input>> /\ <<>> \in Seq(Byte)
    BY <1>5 DEF SendNothing
  <2>2. FlattenSeq(carried') = FlattenSeq(carried) \o <<>>
    BY <1>1, <2>1, FlattenOneMore
  <2> QED BY <1>1, <1>2, <2>1, <2>2, ConcatEmptySeq
<1> QED
  BY <1>2, <1>3, <1>4, <1>5
     DEF Next, vars, talkerVars, sourceVars, CvfTalks, IecTalks, StopTalking, ReadFails,
         SendToFails, PacketFails, Tick, PollReturns, Receive, Present, SocketFails,
         PipeFails, Lose, Stray, Finished

-----------------------------------------------------------------------------
\* The units of a stream.

\* w is what s has behind its first p elements.
At(s, p, w) ==
  /\ p \in Nat
  /\ p + Len(w) <= Len(s)
  /\ \A i \in 1 .. Len(w) : w[i] = s[p + i]

\* The start codes of s up to p.
Below(s, p) == {c \in StartCodes(s) : c <= p}

LEMMA CodesFinite ==
  ASSUME NEW s \in Seq(Byte), NEW p
  PROVE  /\ StartCodes(s) \subseteq Nat \ {0}
         /\ \A c \in StartCodes(s) : c <= Len(s)
         /\ IsFiniteSet(StartCodes(s)) /\ Cardinality(StartCodes(s)) \in Nat
         /\ IsFiniteSet(Below(s, p)) /\ Cardinality(Below(s, p)) \in Nat
<1>1. Len(s) \in Nat
  OBVIOUS
<1>2. StartCodes(s) \subseteq Nat \ {0} /\ \A c \in StartCodes(s) : c <= Len(s)
  BY <1>1 DEF StartCodes
<1>3. StartCodes(s) \in SUBSET Nat
  BY <1>2
<1>4. IsFiniteSet(StartCodes(s))
  BY <1>1, <1>2, <1>3, FS_BoundedSetOfNaturals
<1>5. Below(s, p) \in SUBSET StartCodes(s)
  BY DEF Below
<1>6. IsFiniteSet(Below(s, p))
  BY <1>4, <1>5, FS_Subset
<1> QED BY <1>2, <1>4, <1>6, FS_CardinalityType

\* A window shows the start codes that are in it as a whole, and no others.
LEMMA CodesSeen ==
  ASSUME NEW s \in Seq(Byte), NEW w \in Seq(Byte), NEW p, At(s, p, w), NEW o \in Nat
  PROVE  Code(w, o) <=> p + o + 1 \in StartCodes(s) /\ o + 2 < Len(w)
<1>1. p \in Nat /\ Len(s) \in Nat /\ Len(w) \in Nat /\ p + Len(w) <= Len(s)
  BY DEF At
<1>2. ASSUME o + 2 < Len(w)
      PROVE  /\ w[o + 1] = s[p + o + 1] /\ w[o + 2] = s[p + o + 1 + 1]
             /\ w[o + 3] = s[p + o + 1 + 2]
  <2>1. o + 1 \in 1 .. Len(w) /\ o + 2 \in 1 .. Len(w) /\ o + 3 \in 1 .. Len(w)
    BY <1>1, <1>2
  <2>2. /\ p + (o + 1) = p + o + 1 /\ p + (o + 2) = p + o + 1 + 1
        /\ p + (o + 3) = p + o + 1 + 2
    BY <1>1
  <2>3. w[o + 1] = s[p + (o + 1)] /\ w[o + 2] = s[p + (o + 2)] /\ w[o + 3] = s[p + (o + 3)]
    BY <2>1 DEF At
  <2> QED BY <2>2, <2>3
<1>3. o + 2 < Len(w) => p + o + 1 \in 1 .. Len(s) - 2
  BY <1>1
<1> QED BY <1>2, <1>3 DEF Code, StartCodes

\* One code more.
LEMMA BelowOneMore ==
  ASSUME NEW s \in Seq(Byte), NEW p \in Nat, NEW q \in Nat, NEW c \in StartCodes(s),
         p < c, c <= q, \A d \in StartCodes(s) : p < d /\ d <= q => d = c
  PROVE  Cardinality(Below(s, q)) = Cardinality(Below(s, p)) + 1
<1>1. StartCodes(s) \subseteq Nat
  BY CodesFinite
<1>2. Below(s, q) = Below(s, p) \cup {c}
  BY <1>1 DEF Below
<1>3. c \notin Below(s, p)
  BY <1>1 DEF Below
<1>4. IsFiniteSet(Below(s, p))
  BY CodesFinite
<1> QED BY <1>2, <1>3, <1>4, FS_AddElement

\* and which one of all that is.
LEMMA NthIs ==
  ASSUME NEW s \in Seq(Byte), NEW c \in StartCodes(s), NEW k \in Nat,
         Cardinality(Below(s, c)) = k
  PROVE  Nth(StartCodes(s), k) = c /\ k <= Cardinality(StartCodes(s))
<1> DEFINE C == StartCodes(s)
<1>1. C \subseteq Nat /\ IsFiniteSet(C) /\ \A i : IsFiniteSet(Below(s, i))
  BY CodesFinite
<1>2. ASSUME NEW i \in C, NEW j \in C, i < j
      PROVE  Cardinality(Below(s, i)) # Cardinality(Below(s, j))
  <2>1. i \in Nat /\ j \in Nat
    BY <1>1
  <2>2. Below(s, i) \in SUBSET Below(s, j)
    BY <1>1, <1>2, <2>1 DEF Below
  <2>3. j \in Below(s, j) /\ j \notin Below(s, i)
    BY <1>2, <2>1 DEF Below
  <2> QED BY <1>1, <2>2, <2>3, FS_Subset
<1>3. \A i \in C : Cardinality({j \in C : j <= i}) = k <=> i = c
  <2> SUFFICES ASSUME NEW i \in C PROVE Cardinality(Below(s, i)) = k <=> i = c
    BY DEF Below
  <2>1. i \in Nat /\ c \in Nat
    BY <1>1
  <2>2. i < c \/ c < i \/ i = c
    BY <2>1
  <2> QED BY <1>2, <2>2
<1>4. Nth(C, k) = c
  BY <1>3 DEF Nth
<1>5. k <= Cardinality(C)
  <2>1. Below(s, c) \in SUBSET C
    BY DEF Below
  <2> QED BY <1>1, <2>1, FS_Subset
<1> QED BY <1>4, <1>5

\* A unit reaches up to the next start code, or the end of the stream.
LEMMA UnitAtIs ==
  ASSUME NEW s \in Seq(Byte), NEW c \in StartCodes(s), NEW q \in Nat,
         \A d \in StartCodes(s) : c < d => q < d,
         q = Len(s) \/ (c < q + 1 /\ q + 1 \in StartCodes(s))
  PROVE  UnitAt(s, c) = SubSeq(s, c, q)
<1> DEFINE later == {j \in StartCodes(s) : j > c}
<1>1. StartCodes(s) \subseteq Nat /\ c \in Nat /\ Len(s) \in Nat
      /\ \A d \in StartCodes(s) : d <= Len(s)
  BY CodesFinite
<1>2. CASE q = Len(s)
  <2>1. later = {}
    BY <1>1, <1>2
  <2> QED BY <1>2, <2>1 DEF UnitAt
<1>3. CASE q # Len(s)
  <2>1. q + 1 \in later /\ \A y \in later : q + 1 <= y
    BY <1>1, <1>3
  <2>2. \A x \in later : (\A y \in later : x <= y) <=> x = q + 1
    BY <1>1, <2>1
  <2>3. Min(later) = q + 1
    BY <2>1, <2>2 DEF Min
  <2>4. later # {} /\ Min(later) - 1 = q
    BY <2>1, <2>3
  <2> QED BY <2>4 DEF UnitAt
<1> QED BY <1>2, <1>3

\* Where the unit at c ends.
LEMMA UnitHasEnd ==
  ASSUME NEW s \in Seq(Byte), NEW c \in StartCodes(s)
  PROVE  \E q \in Nat :
           /\ c <= q /\ q <= Len(s)
           /\ \A d \in StartCodes(s) : c < d => q < d
           /\ q = Len(s) \/ (c < q + 1 /\ q + 1 \in StartCodes(s))
<1> DEFINE later == {j \in StartCodes(s) : c < j}
<1>1. StartCodes(s) \subseteq Nat /\ c \in Nat /\ Len(s) \in Nat
      /\ \A d \in StartCodes(s) : d <= Len(s)
  BY CodesFinite
<1>2. CASE later = {}
  BY <1>1, <1>2
<1>3. CASE later # {}
  <2>1. PICK m \in later : \A k \in later : m <= k
    <3>1. later \in SUBSET Nat
      BY <1>1
    <3> QED BY <1>3, <3>1, LeastNatural
  <2>2. PICK q \in Nat : q + 1 = m
    <3>1. m \in Nat /\ c < m
      BY <1>1
    <3>2. m - 1 \in Nat /\ m - 1 + 1 = m
      BY <1>1, <3>1
    <3> QED BY <3>2
  <2>3. m \in StartCodes(s) /\ c < m /\ m <= Len(s)
    BY <1>1
  <2>4. c <= q /\ q <= Len(s)
    BY <1>1, <2>2, <2>3
  <2>5. \A d \in StartCodes(s) : c < d => q < d
    BY <1>1, <2>1, <2>2
  <2> QED BY <2>2, <2>3, <2>4, <2>5
<1> QED BY <1>2, <1>3

\* The next unit behind p: the one of the only start code between p and q, at
\* least as far as q.
LEMMA NextUnit ==
  ASSUME NEW s \in Seq(Byte), NEW p \in Nat, NEW c \in StartCodes(s), NEW q \in Nat,
         p < c, c <= q, \A d \in StartCodes(s) : p < d /\ d < c => FALSE,
         \A d \in StartCodes(s) : c < d => q < d,
         q = Len(s) \/ (c < q + 1 /\ q + 1 \in StartCodes(s)),
         NEW k \in Nat, Cardinality(Below(s, p)) = k
  PROVE  /\ k + 1 \in 1 .. Cardinality(StartCodes(s))
         /\ Cardinality(Below(s, q)) = k + 1
         /\ UnitsOf(s)[k + 1] = SubSeq(s, c, q)
<1>1. StartCodes(s) \subseteq Nat /\ c \in Nat /\ Cardinality(StartCodes(s)) \in Nat
  BY CodesFinite
<1>2. \A d \in StartCodes(s) : p < d /\ d <= q => d = c
  BY <1>1
<1>3. Cardinality(Below(s, q)) = k + 1
  BY <1>2, BelowOneMore
<1>4. \A d \in StartCodes(s) : p < d /\ d <= c => d = c
  BY <1>1
<1>5. Cardinality(Below(s, c)) = k + 1
  <2>1. c <= c
    BY <1>1
  <2> QED BY <1>1, <1>4, <2>1, BelowOneMore
<1>6. Nth(StartCodes(s), k + 1) = c /\ k + 1 <= Cardinality(StartCodes(s))
  BY <1>5, NthIs, k + 1 \in Nat
<1>7. k + 1 \in 1 .. Cardinality(StartCodes(s))
  BY <1>1, <1>6
<1>8. UnitAt(s, c) = SubSeq(s, c, q)
  BY UnitAtIs
<1>9. UnitsOf(s)[k + 1] = UnitAt(s, Nth(StartCodes(s), k + 1))
  BY <1>7 DEF UnitsOf
<1> QED BY <1>3, <1>6, <1>7, <1>8, <1>9

-----------------------------------------------------------------------------
\* cvf-talker sends the units of its input.

\* How much of the stream has left the buffer.
Passed == Len(stream) - Len(input) - Len(buffer)

OneCode(w) == \A i, j \in Nat : Code(w, i) /\ Code(w, j) => i = j

\* The buffer and the input are what the stream has from there on.  Once a unit
\* has been cut off, the buffer begins with the next one, all of whose start code
\* is there, or everything has been sent.
InPlace ==
  /\ At(stream, Passed, buffer)
  /\ At(stream, Passed + Len(buffer), input)
  /\ Passed > 0 => \/ Passed + 1 \in StartCodes(stream) /\ Len(buffer) >= 3
                   \/ Len(buffer) = 0 /\ input = <<>>

\* The units of what has left the buffer have been sent.
UnitsSent ==
  /\ Len(carried) = Cardinality(Below(stream, Passed))
  /\ \A i \in 1 .. Len(carried) : carried[i] = UnitsOf(stream)[i]

\* Nobody reads on before the buffer is down to one unit, so that a buffer that is
\* taken for the end of the input because it is full has no second start code.
FillInv ==
  /\ stage = "fill" => OneCode(buffer) /\ ~at_end
  /\ stage = "cut" /\ at_end =>
       input = <<>> \/ (Len(buffer) = BufferSize /\ OneCode(buffer))

EndInv ==
  /\ stage = "exit 0" => Len(carried) = Cardinality(StartCodes(stream))
  /\ stage = "exit 1" /\ ~Happened("send") =>
       Len(UnitsOf(stream)[Len(carried) + 1]) > DataLen
  /\ stage = "dead" => carried = <<>> /\ Len(buffer) = 1

CutInv == InPlace /\ UnitsSent /\ FillInv /\ EndInv

CvfInv == format = "cvf" /\ CleanInput => CutInv

LEMMA InitCvfInv == Init => CvfInv
<1> SUFFICES ASSUME Init, format = "cvf" PROVE CutInv
  BY DEF CvfInv
<1>1. /\ stream \in Seq(Byte) /\ input = stream /\ carried = <<>> /\ stage = "fill"
      /\ buffer = <<>> /\ at_end = FALSE
  BY VideoAssumption DEF Init, SourceInit, CvfInit
<1>2. Len(stream) \in Nat /\ Len(buffer) = 0 /\ Len(carried) = 0 /\ Passed = 0
  <2>1. Len(stream) \in Nat /\ Len(input) = Len(stream)
    BY <1>1
  <2>2. Len(buffer) = 0 /\ Len(carried) = 0
    BY <1>1, EmptySeq
  <2> QED BY <2>1, <2>2 DEF Passed
<1>3. InPlace
  BY <1>1, <1>2 DEF InPlace, At
<1>4. UnitsSent
  <2>1. Below(stream, 0) = {}
    <3>1. \A c \in StartCodes(stream) : c \in Nat \ {0}
      BY <1>1, CodesFinite
    <3> QED BY <3>1 DEF Below
  <2> QED BY <1>2, <2>1, FS_EmptySet DEF UnitsSent
<1>5. FillInv
  <2>1. \A i \in Nat : ~Code(buffer, i)
    BY <1>2 DEF Code
  <2> QED BY <1>1, <2>1 DEF FillInv, OneCode
<1> QED BY <1>1, <1>3, <1>4, <1>5 DEF CutInv, EndInv

\* The types, and how far the talker is, as numbers.
LEMMA CvfTypes ==
  ASSUME IInv, InPlace
  PROVE  /\ stream \in Seq(Byte) /\ input \in Seq(Byte) /\ buffer \in Seq(Byte)
         /\ carried \in Seq(Seq(Byte))
         /\ Len(stream) \in Nat /\ Len(input) \in Nat /\ Len(buffer) \in Nat
         /\ Len(carried) \in Nat /\ Passed \in Nat
         /\ Len(stream) = Passed + Len(buffer) + Len(input)
         /\ Len(buffer) <= BufferSize
BY DEF IInv, TalkerInv, SourceTypeOK, CvfTypeOK, InPlace, At, Passed

LEMMA FillCutInv ==
  ASSUME IInv, CutInv, FillBuffer PROVE CutInv'
<1>1. /\ stream \in Seq(Byte) /\ input \in Seq(Byte) /\ buffer \in Seq(Byte)
      /\ Len(stream) \in Nat /\ Len(input) \in Nat /\ Len(buffer) \in Nat
      /\ Passed \in Nat /\ Len(stream) = Passed + Len(buffer) + Len(input)
      /\ Len(buffer) <= BufferSize /\ BufferSize \in Nat
  BY CvfTypes, Constants DEF CutInv
<1>2. PICK n \in ReadLengths(Room) :
        /\ buffer' = buffer \o SubSeq(input, 1, n)
        /\ input' = SubSeq(input, n + 1, Len(input))
        /\ at_end' = SeesEnd(n)
  BY DEF FillBuffer
<1>3. /\ stage = "fill" /\ stage' = "cut" /\ UNCHANGED <<stream, carried>>
  BY DEF FillBuffer
<1>4. n \in 0 .. Len(input) /\ (n = 0 => Len(buffer) = BufferSize \/ input = <<>>)
  <2>1. Room \in Nat /\ (Room = 0 => Len(buffer) = BufferSize)
    BY <1>1 DEF Room
  <2> QED BY <1>1, <2>1, ReadLengthsType
<1> DEFINE w == SubSeq(input, 1, n)
<1>5. /\ w \in Seq(Byte) /\ Len(w) = n /\ \A i \in 1 .. n : w[i] = input[i]
      /\ input' \in Seq(Byte) /\ Len(input') = Len(input) - n
      /\ \A i \in 1 .. Len(input) - n : input'[i] = input[n + i]
  BY <1>1, <1>2, <1>4, ReadPieces
<1> HIDE DEF w
<1>6. /\ Len(buffer') = Len(buffer) + n
      /\ \A i \in 1 .. Len(buffer) + n :
           buffer'[i] = IF i <= Len(buffer) THEN buffer[i] ELSE w[i - Len(buffer)]
  <2>1. /\ Len(buffer \o w) = Len(buffer) + n
        /\ \A i \in 1 .. Len(buffer) + n :
             (buffer \o w)[i] = IF i <= Len(buffer) THEN buffer[i] ELSE w[i - Len(buffer)]
    <3>1. buffer \in Seq(Byte) /\ w \in Seq(Byte) /\ Len(w) = n
      BY <1>1, <1>5
    <3> QED BY <3>1, ConcatProperties
  <2>2. buffer' = buffer \o w
    BY <1>2 DEF w
  <2> QED BY <2>1, <2>2
<1>7. Passed' = Passed
  <2>1. /\ n \in Nat /\ Len(stream') = Len(stream)
        /\ Len(input') = Len(input) - n /\ Len(buffer') = Len(buffer) + n
    BY <1>3, <1>4, <1>5, <1>6
  <2>2. Len(stream) \in Nat /\ Len(input) \in Nat /\ Len(buffer) \in Nat
    BY <1>1
  <2>3. Passed' = Len(stream) - (Len(input) - n) - (Len(buffer) + n)
    BY <2>1 DEF Passed
  <2>4. Passed = Len(stream) - Len(input) - Len(buffer)
    BY DEF Passed
  <2>5. PICK a \in Nat, b \in Nat, c \in Nat :
          a = Len(stream) /\ b = Len(input) /\ c = Len(buffer)
    BY <2>2
  <2>6. Passed' = a - (b - n) - (c + n) /\ Passed = a - b - c
    BY <2>3, <2>4, <2>5
  <2>7. a - (b - n) - (c + n) = a - b - c
    BY <2>1
  <2> QED BY <2>6, <2>7
<1>8. \A i \in 1 .. Len(input) : input[i] = stream[Passed + Len(buffer) + i]
  BY DEF CutInv, InPlace, At
<1>9. At(stream, Passed, buffer')
  <2>1. Passed + Len(buffer') <= Len(stream)
    BY <1>1, <1>4, <1>6
  <2>2. ASSUME NEW i \in 1 .. Len(buffer') PROVE buffer'[i] = stream[Passed + i]
    <3>1. CASE i <= Len(buffer)
      <4>1. i \in 1 .. Len(buffer) /\ buffer'[i] = buffer[i]
        BY <1>1, <1>4, <1>6, <3>1
      <4> QED BY <4>1 DEF CutInv, InPlace, At
    <3>2. CASE ~(i <= Len(buffer))
      <4>1. /\ i - Len(buffer) \in 1 .. n /\ i - Len(buffer) \in 1 .. Len(input)
            /\ Passed + Len(buffer) + (i - Len(buffer)) = Passed + i
        BY <1>1, <1>4, <1>6, <3>2
      <4>2. buffer'[i] = w[i - Len(buffer)]
        BY <1>6, <3>2
      <4>3. w[i - Len(buffer)] = input[i - Len(buffer)]
        BY <1>5, <4>1
      <4>4. input[i - Len(buffer)] = stream[Passed + Len(buffer) + (i - Len(buffer))]
        BY <1>8, <4>1
      <4> QED BY <4>1, <4>2, <4>3, <4>4
    <3> QED BY <3>1, <3>2
  <2>3. Passed \in Nat
    BY <1>1
  <2> QED BY <2>1, <2>2, <2>3 DEF At
<1>10. At(stream, Passed + Len(buffer'), input')
  <2>1. Passed + Len(buffer') \in Nat /\ Passed + Len(buffer') + Len(input') <= Len(stream)
    BY <1>1, <1>4, <1>5, <1>6
  <2>2. ASSUME NEW i \in 1 .. Len(input')
        PROVE  input'[i] = stream[Passed + Len(buffer') + i]
    <3>1. /\ i \in 1 .. Len(input) - n /\ n + i \in 1 .. Len(input)
          /\ Passed + Len(buffer) + (n + i) = Passed + Len(buffer') + i
      BY <1>1, <1>4, <1>5, <1>6
    <3>2. input'[i] = input[n + i]
      BY <1>5, <3>1
    <3>3. input[n + i] = stream[Passed + Len(buffer) + (n + i)]
      BY <1>8, <3>1
    <3> QED BY <3>1, <3>2, <3>3
  <2> QED BY <2>1, <2>2 DEF At
<1>11. InPlace'
  <2>1. ASSUME Passed > 0
        PROVE  \/ Passed + 1 \in StartCodes(stream) /\ Len(buffer') >= 3
               \/ Len(buffer') = 0 /\ input' = <<>>
    <3>1. CASE Passed + 1 \in StartCodes(stream) /\ Len(buffer) >= 3
      BY <1>1, <1>4, <1>6, <3>1
    <3>2. CASE Len(buffer) = 0 /\ input = <<>>
      <4>1. Len(input) = 0 /\ n = 0
        BY <1>1, <1>4, <3>2, EmptySeq
      <4>2. Len(input') = 0 /\ Len(buffer') = 0
        BY <1>5, <1>6, <3>2, <4>1
      <4> QED BY <1>5, <4>2, EmptySeq
    <3> QED BY <2>1, <3>1, <3>2 DEF CutInv, InPlace
  <2>2. (At(stream, Passed, buffer))' /\ (At(stream, Passed + Len(buffer), input))'
    BY <1>3, <1>7, <1>9, <1>10 DEF At
  <2>3. (StartCodes(stream))' = StartCodes(stream)
    BY <1>3 DEF StartCodes
  <2> QED BY <1>7, <2>1, <2>2, <2>3 DEF InPlace
<1>12. UnitsSent'
  <2>1. (Below(stream, Passed))' = Below(stream, Passed) /\ (UnitsOf(stream))' = UnitsOf(stream)
    BY <1>3, <1>7 DEF Below, UnitsOf, StartCodes, UnitAt
  <2> QED BY <1>3, <2>1 DEF CutInv, UnitsSent
<1>13. FillInv'
  <2>1. OneCode(buffer)
    BY <1>3 DEF CutInv, FillInv
  <2>2. ASSUME at_end', input' # <<>> PROVE Len(buffer') = BufferSize /\ OneCode(buffer')
    <3>1. n = 0
      BY <1>2, <2>2 DEF SeesEnd
    <3>2. Len(input') = Len(input) /\ Len(buffer') = Len(buffer)
      BY <1>1, <1>5, <1>6, <3>1
    <3>3. Len(buffer) = BufferSize
      <4>1. input = <<>> => input' = <<>>
        <5>1. input = <<>> => Len(input') = 0
          BY <3>2, EmptySeq
        <5> QED BY <1>5, <5>1, EmptySeq
      <4> QED BY <1>4, <2>2, <3>1, <4>1
    <3>4. \A i \in 1 .. Len(buffer) : buffer'[i] = buffer[i]
      BY <1>1, <1>6, <3>1
    <3>5. \A i \in Nat : Code(buffer', i) => Code(buffer, i)
      <4> SUFFICES ASSUME NEW i \in Nat, Code(buffer', i) PROVE Code(buffer, i)
        OBVIOUS
      <4>1. i + 2 < Len(buffer)
        BY <3>2 DEF Code
      <4>2. i + 1 \in 1 .. Len(buffer) /\ i + 2 \in 1 .. Len(buffer) /\ i + 3 \in 1 .. Len(buffer)
        BY <1>1, <4>1
      <4> QED BY <3>4, <4>1, <4>2 DEF Code
    <3> QED BY <2>1, <3>2, <3>3, <3>5 DEF OneCode
  <2>3. stage' = "cut" /\ stage' # "fill"
    BY <1>3
  <2> QED BY <2>2, <2>3 DEF FillInv, OneCode
<1>14. EndInv'
  BY <1>3 DEF EndInv
<1> QED BY <1>11, <1>12, <1>13, <1>14 DEF CutInv

LEMMA Visible ==
  ASSUME IInv, InPlace, NEW o \in Nat
  PROVE  Code(buffer, o) <=> Passed + o + 1 \in StartCodes(stream) /\ o + 2 < Len(buffer)
BY CvfTypes, CodesSeen DEF InPlace

\* What comes before the first start code, as a number.
LEMMA PreambleIs ==
  ASSUME NEW s \in Seq(Byte)
  PROVE  /\ Preamble(s) \in Nat
         /\ \/ Preamble(s) = Len(s)
            \/ Preamble(s) + 1 \in StartCodes(s)
<1> DEFINE C == StartCodes(s)
<1>1. C \in SUBSET Nat /\ 0 \notin C /\ Len(s) \in Nat
  BY CodesFinite
<1>2. CASE C = {}
  BY <1>1, <1>2 DEF Preamble
<1>3. CASE C # {}
  <2>1. \E m \in C : \A k \in C : m <= k
    BY <1>1, <1>3, LeastNatural
  <2>2. Min(C) \in C
    BY <2>1 DEF Min
  <2>3. Preamble(s) = Min(C) - 1
    BY <1>3 DEF Preamble
  <2> HIDE DEF C
  <2>4. Min(C) \in Nat /\ Min(C) # 0
    BY <1>1, <2>2
  <2>5. Min(C) - 1 \in Nat /\ Min(C) - 1 + 1 = Min(C)
    BY <2>4
  <2> QED BY <2>2, <2>3, <2>5 DEF C
<1> QED BY <1>2, <1>3

\* A full buffer shows a start code, and a whole unit and the next start code
\* would fit behind it.
LEMMA FullBuffer ==
  ASSUME IInv, InPlace, CleanInput, Len(buffer) = BufferSize
  PROVE  \E o \in Nat : Code(buffer, o) /\ DataLen + 3 <= BufferSize - o
<1>1. /\ stream \in Seq(Byte) /\ Len(stream) \in Nat /\ Len(input) \in Nat
      /\ Len(buffer) \in Nat /\ Passed \in Nat
      /\ Len(stream) = Passed + Len(buffer) + Len(input)
  BY CvfTypes
<1>2. BufferSize \in Nat /\ DataLen \in Nat /\ BufferSize > 0
  BY Constants
<1>3. /\ Preamble(stream) \in Nat /\ Preamble(stream) + DataLen + 3 <= BufferSize
      /\ Preamble(stream) = Len(stream) \/ Preamble(stream) + 1 \in StartCodes(stream)
  BY <1>1, PreambleIs DEF CleanInput
<1>4. CASE Passed > 0
  <2>1. Passed + 1 \in StartCodes(stream) /\ Len(buffer) >= 3
    BY <1>1, <1>2, <1>4 DEF InPlace
  <2>2. Passed + 0 + 1 = Passed + 1 /\ 0 + 2 < Len(buffer)
    BY <1>1, <2>1
  <2>3. Code(buffer, 0)
    BY <2>1, <2>2, Visible
  <2>4. DataLen + 3 <= BufferSize - 0
    BY <1>2, <1>3
  <2> QED BY <2>3, <2>4
<1>5. CASE Passed = 0
  <2>1. Preamble(stream) # Len(stream)
    BY <1>1, <1>2, <1>3, <1>5
  <2>2. /\ Passed + Preamble(stream) + 1 = Preamble(stream) + 1
        /\ Preamble(stream) + 2 < Len(buffer)
    BY <1>1, <1>2, <1>3, <1>5
  <2>3. Code(buffer, Preamble(stream))
    BY <1>3, <2>1, <2>2, Visible
  <2>4. DataLen + 3 <= BufferSize - Preamble(stream)
    BY <1>2, <1>3
  <2> QED BY <1>3, <2>3, <2>4
<1> QED BY <1>1, <1>4, <1>5

\* The unit at Start is the next one of the stream.
LEMMA NextStarts ==
  ASSUME IInv, InPlace, ~NoNal
  PROVE  /\ Passed + Start + 1 \in StartCodes(stream)
         /\ Passed < Passed + Start + 1
         /\ \A d \in StartCodes(stream) : Passed < d /\ d < Passed + Start + 1 => FALSE
<1>1. /\ stream \in Seq(Byte) /\ buffer \in Seq(Byte)
      /\ Len(buffer) \in Nat /\ Passed \in Nat
  BY CvfTypes
<1>2. /\ Start \in Nat /\ Code(buffer, Start)
      /\ \A i \in Nat : i < Start => ~Code(buffer, i)
  BY <1>1, CutPlaces
<1>3. Start + 2 < Len(buffer) /\ Passed + Start + 1 \in StartCodes(stream)
  BY <1>2, Visible
<1>4. ASSUME NEW d \in StartCodes(stream), Passed < d, d < Passed + Start + 1 PROVE FALSE
  <2>1. d \in Nat
    BY <1>1, CodesFinite
  <2>2. PICK o \in Nat : o = d - Passed - 1
    BY <1>1, <1>4, <2>1
  <2>3. Passed + o + 1 = d /\ o < Start /\ o + 2 < Len(buffer)
    BY <1>1, <1>2, <1>3, <1>4, <2>1, <2>2
  <2>4. Code(buffer, o)
    BY <2>3, Visible
  <2> QED BY <1>2, <2>3, <2>4
<1>5. Passed < Passed + Start + 1
  BY <1>1, <1>2
<1> QED BY <1>3, <1>4, <1>5

\* The first start code after p, and where the unit that begins there ends.
FirstAfter(s, p, c) ==
  /\ c \in StartCodes(s) /\ p < c
  /\ \A d \in StartCodes(s) : p < d /\ d < c => FALSE

UnitIs(s, c, q) ==
  /\ c <= q
  /\ \A d \in StartCodes(s) : c < d => q < d
  /\ q = Len(s) \/ (c < q + 1 /\ q + 1 \in StartCodes(s))

LEMMA UnitAfter ==
  ASSUME NEW s \in Seq(Byte), NEW p \in Nat, NEW c \in Nat, NEW q \in Nat, NEW k \in Nat,
         FirstAfter(s, p, c), UnitIs(s, c, q), Cardinality(Below(s, p)) = k
  PROVE  /\ k + 1 \in 1 .. Cardinality(StartCodes(s))
         /\ Cardinality(Below(s, q)) = k + 1
         /\ UnitsOf(s)[k + 1] = SubSeq(s, c, q)
<1>1. ASSUME NEW b \in StartCodes(s), FirstAfter(s, p, b), UnitIs(s, b, q)
      PROVE  /\ k + 1 \in 1 .. Cardinality(StartCodes(s))
             /\ Cardinality(Below(s, q)) = k + 1
             /\ UnitsOf(s)[k + 1] = SubSeq(s, b, q)
  <2>1. /\ p < b /\ b <= q
        /\ \A d \in StartCodes(s) : p < d /\ d < b => FALSE
        /\ \A d \in StartCodes(s) : b < d => q < d
        /\ q = Len(s) \/ (b < q + 1 /\ q + 1 \in StartCodes(s))
    BY <1>1 DEF FirstAfter, UnitIs
  <2> QED BY <2>1, NextUnit
<1>2. c \in StartCodes(s)
  BY DEF FirstAfter
<1> QED BY <1>1, <1>2, Zenon

\* Where it ends is seen, or known because all has been read: it is cut off whole.
LEMMA CutsWhole ==
  ASSUME IInv, InPlace, UnitsSent, ~NoNal,
         Code(buffer, End) \/ (input = <<>> /\ End = Len(buffer))
  PROVE  /\ Len(carried) + 1 \in 1 .. Cardinality(StartCodes(stream))
         /\ Cardinality(Below(stream, Passed + End)) = Len(carried) + 1
         /\ UnitsOf(stream)[Len(carried) + 1] = Nal
<1>1. /\ stream \in Seq(Byte) /\ input \in Seq(Byte) /\ buffer \in Seq(Byte)
      /\ Len(stream) \in Nat /\ Len(input) \in Nat /\ Len(buffer) \in Nat
      /\ Len(carried) \in Nat /\ Passed \in Nat
      /\ Len(stream) = Passed + Len(buffer) + Len(input)
  BY CvfTypes
<1>2. /\ Start \in Nat /\ End \in Nat /\ Start < End /\ End <= Len(buffer)
      /\ \A i \in Nat : Start < i /\ i < End => ~Code(buffer, i)
  BY <1>1, CutPlaces
<1>0. PICK c \in Nat, e \in Nat : c = Passed + Start + 1 /\ e = Passed + End
  BY <1>1, <1>2
<1>3. /\ c \in StartCodes(stream) /\ Passed < c
      /\ \A d \in StartCodes(stream) : Passed < d /\ d < c => FALSE
  BY <1>0, NextStarts
<1>4. c <= e /\ c < e + 1
  BY <1>0, <1>1, <1>2
<1>5. input = <<>> => Len(stream) = Passed + Len(buffer)
  BY <1>1, EmptySeq
<1>6. e = Len(stream) \/ (c < e + 1 /\ e + 1 \in StartCodes(stream))
  <2>1. CASE Code(buffer, End)
    BY <1>0, <1>2, <1>4, <2>1, Visible
  <2>2. CASE input = <<>> /\ End = Len(buffer)
    BY <1>0, <1>5, <2>2
  <2> QED BY <2>1, <2>2
<1>7. ASSUME NEW d \in StartCodes(stream), c < d PROVE e < d
  <2>1. SUFFICES ASSUME ~(e < d) PROVE FALSE
    OBVIOUS
  <2>2. d \in Nat /\ d <= Len(stream) - 2
    BY <1>1, CodesFinite DEF StartCodes
  <2>3. PICK o \in Nat : o = d - Passed - 1
    BY <1>0, <1>1, <1>2, <1>7, <2>2
  <2>4. Passed + o + 1 = d /\ Start < o /\ o < End
    BY <1>0, <1>1, <1>2, <1>7, <2>1, <2>2, <2>3
  <2>5. o + 2 < Len(buffer)
    <3>1. CASE Code(buffer, End)
      <4>1. End + 2 < Len(buffer)
        BY <3>1 DEF Code
      <4> QED BY <1>1, <1>2, <2>4, <4>1
    <3>2. CASE input = <<>> /\ End = Len(buffer)
      BY <1>1, <1>5, <2>2, <2>3, <3>2
    <3> QED BY <3>1, <3>2
  <2>6. Code(buffer, o)
    BY <2>4, <2>5, Visible
  <2> QED BY <1>2, <2>4, <2>6
<1>8. Cardinality(Below(stream, Passed)) = Len(carried)
  BY DEF UnitsSent
<1>11. \A d \in StartCodes(stream) : c < d => e < d
  BY <1>7
<1>9. /\ Len(carried) + 1 \in 1 .. Cardinality(StartCodes(stream))
      /\ Cardinality(Below(stream, e)) = Len(carried) + 1
      /\ UnitsOf(stream)[Len(carried) + 1] = SubSeq(stream, c, e)
  <2>1. FirstAfter(stream, Passed, c)
    BY <1>3 DEF FirstAfter
  <2>2. UnitIs(stream, c, e)
    BY <1>4, <1>6, <1>11 DEF UnitIs
  <2>3. PICK s \in Seq(Byte), p \in Nat, k \in Nat :
          s = stream /\ p = Passed /\ k = Len(carried)
    BY <1>1
  <2>4. FirstAfter(s, p, c) /\ UnitIs(s, c, e) /\ Cardinality(Below(s, p)) = k
    BY <1>8, <2>1, <2>2, <2>3
  <2>5. /\ k + 1 \in 1 .. Cardinality(StartCodes(s))
        /\ Cardinality(Below(s, e)) = k + 1
        /\ UnitsOf(s)[k + 1] = SubSeq(s, c, e)
    BY <2>4, UnitAfter
  <2> QED BY <2>3, <2>5
<1>10. SubSeq(stream, c, e) = Nal
  <2>1. /\ Nal \in Seq(Byte) /\ Len(Nal) = End - Start
        /\ \A i \in 1 .. Len(Nal) : Nal[i] = buffer[Start + i]
    BY <1>1, CutPieces
  <2>2. PICK a \in Nat : a = Passed + Start
    BY <1>1, <1>2
  <2>3. a <= e /\ e <= Len(stream) /\ a + 1 = c /\ e - a = End - Start
    BY <1>0, <1>1, <1>2, <2>2
  <2>4. /\ SubSeq(stream, a + 1, e) \in Seq(Byte) /\ Len(SubSeq(stream, a + 1, e)) = e - a
        /\ \A i \in 1 .. e - a : SubSeq(stream, a + 1, e)[i] = stream[a + i]
    BY <1>1, <2>3, Window
  <2>5. ASSUME NEW i \in 1 .. End - Start PROVE Nal[i] = stream[a + i]
    <3>1. Start + i \in 1 .. Len(buffer) /\ Passed + (Start + i) = a + i
      BY <1>1, <1>2, <2>2
    <3>2. buffer[Start + i] = stream[Passed + (Start + i)]
      BY <3>1 DEF InPlace, At
    <3> QED BY <2>1, <3>1, <3>2
  <2> DEFINE u == SubSeq(stream, a + 1, e)
  <2>6. u \in Seq(Byte) /\ Len(u) = Len(Nal) /\ \A i \in 1 .. Len(u) : u[i] = Nal[i]
    BY <2>1, <2>3, <2>4, <2>5
  <2>7. u = Nal
    <3> HIDE DEF u
    <3> QED BY <2>1, <2>6, SeqEqual
  <2> QED BY <2>3, <2>7
<1> QED BY <1>0, <1>9, <1>10

\* A unit whose end is not in sight, in a full buffer, is too long.
LEMMA CutsTooLong ==
  ASSUME IInv, InPlace, UnitsSent, CleanInput, ~NoNal,
         Len(buffer) = BufferSize, End = Len(buffer), OneCode(buffer)
  PROVE  /\ Len(Nal) > DataLen
         /\ Len(UnitsOf(stream)[Len(carried) + 1]) > DataLen
<1>1. /\ stream \in Seq(Byte) /\ buffer \in Seq(Byte)
      /\ Len(stream) \in Nat /\ Len(input) \in Nat /\ Len(buffer) \in Nat
      /\ Len(carried) \in Nat /\ Passed \in Nat
      /\ Len(stream) = Passed + Len(buffer) + Len(input)
      /\ BufferSize \in Nat /\ DataLen \in Nat
  BY CvfTypes, Constants
<1>2. Start \in Nat /\ Code(buffer, Start) /\ Len(Nal) = End - Start
  BY <1>1, CutPlaces, CutPieces
<1>3. DataLen + 3 <= BufferSize - Start
  BY <1>2, FullBuffer DEF OneCode
<1>4. PICK c \in Nat : c = Passed + Start + 1
  BY <1>1, <1>2
<1>5. /\ c \in StartCodes(stream) /\ Passed < c
      /\ \A d \in StartCodes(stream) : Passed < d /\ d < c => FALSE
  BY <1>4, NextStarts
<1>6. PICK q \in Nat : /\ c <= q /\ q <= Len(stream)
                       /\ \A d \in StartCodes(stream) : c < d => q < d
                       /\ q = Len(stream) \/ (c < q + 1 /\ q + 1 \in StartCodes(stream))
  BY <1>1, <1>5, UnitHasEnd
<1>7. Passed + Len(buffer) <= q + 2
  <2>1. CASE q = Len(stream)
    BY <1>1, <2>1
  <2>2. CASE c < q + 1 /\ q + 1 \in StartCodes(stream)
    <3>1. SUFFICES ASSUME q + 2 < Passed + Len(buffer) PROVE FALSE
      BY <1>1
    <3>2. PICK o \in Nat : o = q - Passed
      BY <1>1, <1>5, <1>6
    <3>3. Passed + o + 1 = q + 1 /\ o + 2 < Len(buffer) /\ o # Start
      BY <1>1, <1>2, <1>4, <2>2, <3>1, <3>2
    <3>4. Code(buffer, o)
      BY <2>2, <3>3, Visible
    <3> QED BY <1>2, <3>3, <3>4 DEF OneCode
  <2> QED BY <1>6, <2>1, <2>2
<1>8. UnitsOf(stream)[Len(carried) + 1] = SubSeq(stream, c, q)
  <2>1. Cardinality(Below(stream, Passed)) = Len(carried)
    BY DEF UnitsSent
  <2>2. FirstAfter(stream, Passed, c)
    BY <1>5 DEF FirstAfter
  <2>3. UnitIs(stream, c, q)
    BY <1>6 DEF UnitIs
  <2>4. PICK s \in Seq(Byte), p \in Nat, k \in Nat :
          s = stream /\ p = Passed /\ k = Len(carried)
    BY <1>1
  <2>5. FirstAfter(s, p, c) /\ UnitIs(s, c, q) /\ Cardinality(Below(s, p)) = k
    BY <2>1, <2>2, <2>3, <2>4
  <2>6. UnitsOf(s)[k + 1] = SubSeq(s, c, q)
    BY <2>5, UnitAfter
  <2> QED BY <2>4, <2>6
<1>9. Len(SubSeq(stream, c, q)) = q - c + 1
  <2>1. PICK a \in Nat : a + 1 = c
    BY <1>1, <1>2, <1>4
  <2>2. a <= q
    BY <1>6, <2>1
  <2>3. Len(SubSeq(stream, a + 1, q)) = q - a
    BY <1>1, <1>6, <2>2, Window
  <2> QED BY <2>1, <2>3
<1>10. q - c + 1 > DataLen /\ End - Start > DataLen
  BY <1>1, <1>2, <1>3, <1>4, <1>7
<1> QED BY <1>2, <1>8, <1>9, <1>10

LEMMA SendNalCutInv ==
  ASSUME IInv, CutInv, CleanInput, SendNal PROVE CutInv'
<1>1. /\ stream \in Seq(Byte) /\ buffer \in Seq(Byte) /\ input \in Seq(Byte)
      /\ carried \in Seq(Seq(Byte))
      /\ Len(stream) \in Nat /\ Len(input) \in Nat /\ Len(buffer) \in Nat
      /\ Len(carried) \in Nat /\ Passed \in Nat
      /\ Len(stream) = Passed + Len(buffer) + Len(input)
      /\ InPlace /\ UnitsSent
  BY CvfTypes DEF CutInv
<1>2. /\ stage = "cut" /\ ~NoNal /\ Len(Nal) <= DataLen
      /\ carried' = Append(carried, Nal) /\ buffer' = Rest
      /\ UNCHANGED <<stream, input, stage, at_end>>
  BY DEF SendNal, CanCut
<1>3. /\ Start \in Nat /\ Code(buffer, Start) /\ End \in Nat /\ Start < End
      /\ End <= Len(buffer)
      /\ Code(buffer, End) \/ (at_end /\ End = Len(buffer))
  BY <1>1, <1>2, CutPlaces
<1>4. /\ Nal \in Seq(Byte) /\ Rest \in Seq(Byte) /\ Len(Rest) = Len(buffer) - End
      /\ \A i \in 1 .. Len(Rest) : Rest[i] = buffer[End + i]
  BY <1>1, <1>2, CutPieces
<1>5. Code(buffer, End) \/ (input = <<>> /\ End = Len(buffer))
  <2>1. SUFFICES ASSUME at_end, End = Len(buffer), input # <<>> PROVE FALSE
    BY <1>3
  <2>2. Len(buffer) = BufferSize /\ OneCode(buffer)
    BY <1>2, <2>1 DEF CutInv, FillInv
  <2>3. Len(Nal) > DataLen
    BY <1>1, <1>2, <2>1, <2>2, CutsTooLong
  <2>4. Len(Nal) \in Nat /\ DataLen \in Nat
    BY <1>4, Constants
  <2> QED BY <1>2, <2>3, <2>4
<1>6. at_end => input = <<>>
  <2>1. CASE Code(buffer, End)
    <3>1. ~OneCode(buffer)
      BY <1>3, <2>1 DEF OneCode
    <3> QED BY <1>2, <3>1 DEF CutInv, FillInv
  <2>2. CASE input = <<>> /\ End = Len(buffer)
    BY <2>2
  <2> QED BY <1>5, <2>1, <2>2
<1>7. /\ Len(carried) + 1 \in 1 .. Cardinality(StartCodes(stream))
      /\ Cardinality(Below(stream, Passed + End)) = Len(carried) + 1
      /\ UnitsOf(stream)[Len(carried) + 1] = Nal
  BY <1>1, <1>2, <1>5, CutsWhole
<1>8. Passed' = Passed + End
  BY <1>1, <1>2, <1>3, <1>4 DEF Passed
<1>9. At(stream, Passed + End, Rest)
  <2>1. Passed + End \in Nat /\ Passed + End + Len(Rest) <= Len(stream)
    BY <1>1, <1>3, <1>4
  <2>2. ASSUME NEW i \in 1 .. Len(Rest) PROVE Rest[i] = stream[Passed + End + i]
    <3>1. End + i \in 1 .. Len(buffer) /\ Passed + (End + i) = Passed + End + i
      BY <1>1, <1>3, <1>4
    <3>2. buffer[End + i] = stream[Passed + (End + i)]
      BY <1>1, <3>1 DEF InPlace, At
    <3> QED BY <1>4, <3>1, <3>2
  <2> QED BY <2>1, <2>2 DEF At
<1>10. At(stream, Passed + End + Len(Rest), input)
  <2>1. Passed + End + Len(Rest) = Passed + Len(buffer)
    BY <1>1, <1>3, <1>4
  <2> QED BY <1>1, <2>1 DEF InPlace
<1>11. InPlace'
  <2>1. \/ Passed + End + 1 \in StartCodes(stream) /\ Len(Rest) >= 3
        \/ Len(Rest) = 0 /\ input = <<>>
    <3>1. CASE Code(buffer, End)
      <4>1. Passed + End + 1 \in StartCodes(stream) /\ End + 2 < Len(buffer)
        BY <1>1, <1>3, <3>1, Visible
      <4> QED BY <1>1, <1>3, <1>4, <4>1
    <3>2. CASE input = <<>> /\ End = Len(buffer)
      BY <1>1, <1>4, <3>2
    <3> QED BY <1>5, <3>1, <3>2
  <2>2. (At(stream, Passed, buffer))' /\ (At(stream, Passed + Len(buffer), input))'
    BY <1>2, <1>8, <1>9, <1>10 DEF At
  <2>3. (StartCodes(stream))' = StartCodes(stream)
    BY <1>2 DEF StartCodes
  <2> QED BY <1>2, <1>8, <2>1, <2>2, <2>3 DEF InPlace
<1>12. UnitsSent'
  <2>1. (Below(stream, Passed))' = Below(stream, Passed + End)
        /\ (UnitsOf(stream))' = UnitsOf(stream)
    BY <1>2, <1>8 DEF Below, UnitsOf, StartCodes, UnitAt
  <2>2. /\ Len(carried') = Len(carried) + 1 /\ carried'[Len(carried) + 1] = Nal
        /\ \A i \in 1 .. Len(carried) : carried'[i] = carried[i]
    BY <1>1, <1>2, <1>4
  <2>3. \A i \in 1 .. Len(carried) : carried[i] = UnitsOf(stream)[i]
    BY <1>1 DEF UnitsSent
  <2>4. \A i \in 1 .. Len(carried') : i \in 1 .. Len(carried) \/ i = Len(carried) + 1
    <3>1. \A n \in Nat : \A i \in 1 .. n + 1 : i \in 1 .. n \/ i = n + 1
      OBVIOUS
    <3>2. Len(carried) \in Nat /\ Len(carried') = Len(carried) + 1
      BY <1>1, <2>2
    <3> QED BY <3>1, <3>2
  <2>5. \A i \in 1 .. Len(carried') : carried'[i] = UnitsOf(stream)[i]
    BY <1>7, <2>2, <2>3, <2>4
  <2> QED BY <1>7, <2>1, <2>2, <2>5 DEF UnitsSent
<1>13. FillInv' /\ EndInv'
  BY <1>2, <1>6 DEF FillInv, EndInv
<1> QED BY <1>11, <1>12, <1>13 DEF CutInv

\* Nothing but the stage changes, and the talker has not ended.
LEMMA StageCutInv ==
  ASSUME CutInv, UNCHANGED <<stream, input, carried, cvfVars>>, FillInv', EndInv'
  PROVE  CutInv'
<1>1. UNCHANGED <<stream, input, carried, buffer, Passed>>
  BY DEF cvfVars, Passed
<1>2. InPlace'
  BY <1>1 DEF CutInv, InPlace, At, StartCodes
<1>3. UnitsSent'
  <2>1. (Below(stream, Passed))' = Below(stream, Passed) /\ (UnitsOf(stream))' = UnitsOf(stream)
    BY <1>1 DEF Below, UnitsOf, StartCodes, UnitAt
  <2> QED BY <1>1, <2>1 DEF CutInv, UnitsSent
<1> QED BY <1>2, <1>3 DEF CutInv

LEMMA BreakCutInv ==
  ASSUME IInv, CutInv, CleanInput, Break PROVE CutInv'
<1>1. /\ stream \in Seq(Byte) /\ buffer \in Seq(Byte) /\ input \in Seq(Byte)
      /\ Len(stream) \in Nat /\ Len(input) \in Nat /\ Len(buffer) \in Nat
      /\ Passed \in Nat /\ Len(stream) = Passed + Len(buffer) + Len(input)
      /\ InPlace /\ UnitsSent
  BY CvfTypes DEF CutInv
<1>2. /\ stage = "cut" /\ stage' = IF at_end THEN "exit 0" ELSE "fill"
      /\ buffer = <<>> \/ NoNal
      /\ UNCHANGED <<stream, input, carried, cvfVars>>
  BY DEF Break
<1>3. OneCode(buffer) /\ (at_end => \A i \in Nat : ~Code(buffer, i))
  <2>1. CASE buffer = <<>>
    <3>1. Len(buffer) = 0
      BY <2>1, EmptySeq
    <3>2. \A i \in Nat : ~Code(buffer, i)
      BY <3>1 DEF Code
    <3> QED BY <3>2 DEF OneCode
  <2>2. CASE NoNal
    BY <1>1, <2>2, NothingToCut DEF OneCode
  <2> QED BY <1>2, <2>1, <2>2
<1>4. (OneCode(buffer))'
  BY <1>2, <1>3 DEF OneCode, Code, cvfVars
<1>5. FillInv'
  BY <1>2, <1>4 DEF FillInv, cvfVars
<1>6. ASSUME at_end PROVE Len(carried) = Cardinality(StartCodes(stream))
  <2>1. input = <<>>
    <3>1. Len(buffer) # BufferSize
      BY <1>1, <1>3, <1>6, FullBuffer
    <3> QED BY <1>2, <1>6, <3>1 DEF CutInv, FillInv
  <2>2. Len(stream) = Passed + Len(buffer)
    BY <1>1, <2>1, EmptySeq
  <2>3. ASSUME NEW d \in StartCodes(stream), ~(d <= Passed) PROVE FALSE
    <3>1. d \in Nat /\ d <= Len(stream) - 2
      BY <1>1, CodesFinite DEF StartCodes
    <3>2. PICK o \in Nat : o = d - Passed - 1
      BY <1>1, <2>3, <3>1
    <3>3. Passed + o + 1 = d /\ o + 2 < Len(buffer)
      BY <1>1, <2>2, <3>1, <3>2
    <3>4. Code(buffer, o)
      BY <1>1, <3>3, Visible
    <3> QED BY <1>3, <1>6, <3>4
  <2>4. Below(stream, Passed) = StartCodes(stream)
    BY <2>3 DEF Below
  <2> QED BY <1>1, <2>4 DEF UnitsSent
<1>7. EndInv'
  <2>1. (StartCodes(stream))' = StartCodes(stream)
    BY <1>2 DEF StartCodes
  <2>2. stage' = "exit 0" => Len(carried') = Cardinality((StartCodes(stream))')
    BY <1>2, <1>6, <2>1
  <2>3. stage' # "exit 1" /\ stage' # "dead"
    BY <1>2
  <2> QED BY <2>2, <2>3 DEF EndInv
<1> QED BY <1>2, <1>5, <1>7, StageCutInv

LEMMA DieCutInv ==
  ASSUME IInv, CutInv, Die PROVE CutInv'
<1>1. /\ stream \in Seq(Byte) /\ carried \in Seq(Seq(Byte)) /\ Passed \in Nat
      /\ InPlace /\ UnitsSent
  BY CvfTypes DEF CutInv
<1>2. /\ stage' = "dead" /\ Len(buffer) = 1
      /\ UNCHANGED <<stream, input, carried, cvfVars>>
  BY DEF Die, SearchHasNoEnd
<1>3. Passed = 0
  BY <1>1, <1>2 DEF InPlace
<1>4. carried = <<>>
  <2>1. \A c \in StartCodes(stream) : c \in Nat \ {0}
    BY <1>1, CodesFinite
  <2>2. Below(stream, Passed) = {}
    BY <1>3, <2>1 DEF Below
  <2>3. Len(carried) = 0
    BY <1>1, <2>2, FS_EmptySet DEF UnitsSent
  <2> QED BY <1>1, <2>3, EmptySeq
<1>5. FillInv' /\ EndInv'
  BY <1>2, <1>4 DEF FillInv, EndInv, cvfVars
<1> QED BY <1>2, <1>5, StageCutInv

LEMMA NalTooLongCutInv ==
  ASSUME IInv, CutInv, CleanInput, NalTooLong PROVE CutInv'
<1>1. buffer \in Seq(Byte) /\ InPlace /\ UnitsSent
  BY CvfTypes DEF CutInv
<1>2. /\ stage = "cut" /\ ~NoNal /\ Len(Nal) > DataLen /\ stage' = "exit 1"
      /\ UNCHANGED <<stream, input, carried, cvfVars>>
  BY DEF NalTooLong, CanCut
<1>3. Len(UnitsOf(stream)[Len(carried) + 1]) > DataLen
  <2>1. Code(buffer, End) \/ (at_end /\ End = Len(buffer))
    BY <1>1, <1>2, CutPlaces
  <2>2. CASE Code(buffer, End) \/ (input = <<>> /\ End = Len(buffer))
    BY <1>1, <1>2, <2>2, CutsWhole
  <2>3. CASE at_end /\ End = Len(buffer) /\ input # <<>>
    <3>1. Len(buffer) = BufferSize /\ OneCode(buffer)
      BY <1>2, <2>3 DEF CutInv, FillInv
    <3> QED BY <1>1, <1>2, <2>3, <3>1, CutsTooLong
  <2> QED BY <2>1, <2>2, <2>3
<1>4. (UnitsOf(stream))' = UnitsOf(stream)
  BY <1>2 DEF UnitsOf, StartCodes, UnitAt
<1>5. FillInv' /\ EndInv'
  BY <1>2, <1>3, <1>4 DEF FillInv, EndInv
<1> QED BY <1>2, <1>5, StageCutInv

\* What has happened stays so.
LEMMA FaultsStay ==
  ASSUME IInv, NEW kind, NEW other, Fault(kind)
  PROVE  Happened(kind)' /\ (Happened(other) => Happened(other)')
<1>1. faults \in Seq(FaultKinds) /\ kind \in FaultKinds /\ faults' = Append(faults, kind)
  BY DEF IInv, WorldInv, Fault
<1>2. /\ Len(faults) \in Nat /\ DOMAIN faults = 1 .. Len(faults)
      /\ DOMAIN faults' = 1 .. Len(faults) + 1
      /\ faults'[Len(faults) + 1] = kind
      /\ \A i \in 1 .. Len(faults) : faults'[i] = faults[i] /\ i \in 1 .. Len(faults) + 1
  BY <1>1
<1>3. Len(faults) + 1 \in 1 .. Len(faults) + 1
  BY <1>2
<1> QED BY <1>2, <1>3 DEF Happened

LEMMA NextCvfInv ==
  IInv /\ CvfInv /\ [Next]_vars => CvfInv'
<1> SUFFICES ASSUME IInv, CvfInv, [Next]_vars, format' = "cvf", CleanInput'
             PROVE  CutInv'
  BY DEF CvfInv
<1>1. format = "cvf" /\ stream' = stream
  BY DEF Next, vars, talkerVars, sourceVars, CvfTalks, FillBuffer, Break, Die, NalTooLong,
         SendNal, IecTalks, SendPacket, StopTalking, ReadFails, FillFails, SendNothing,
         SendToFails, SendFails, PacketFails, Tick, PollReturns, Receive, Present,
         SocketFails, PipeFails, Lose, Stray, Finished
<1>2. \/ faults' = faults
      \/ Fault("read") /\ ReadFails
      \/ Fault("send") /\ SendToFails
      \/ \E kind \in {"foreign", "socket", "pipe"} :
           Fault(kind) /\ UNCHANGED <<talkerVars, format>>
  BY DEF Next, vars, talkerVars, sourceVars, CvfTalks, IecTalks, ReadFails, SendToFails,
         Tick, PollReturns, Receive, Present, SocketFails, PipeFails, Lose, Stray, Finished
<1>3. CleanInput
  <2>1. Happened("read") => Happened("read")'
    BY <1>2, FaultsStay DEF Happened
  <2> QED BY <1>1, <2>1 DEF CleanInput, Preamble, StartCodes
<1>4. CutInv
  BY <1>1, <1>3 DEF CvfInv
<1>5. ASSUME UNCHANGED talkerVars, Happened("send") => Happened("send")' PROVE CutInv'
  <2>1. UNCHANGED <<stream, input, carried, stage, cvfVars>>
    BY <1>5 DEF talkerVars, sourceVars
  <2>2. (UnitsOf(stream))' = UnitsOf(stream) /\ (StartCodes(stream))' = StartCodes(stream)
    BY <2>1 DEF UnitsOf, StartCodes, UnitAt
  <2>3. (OneCode(buffer))' <=> OneCode(buffer)
    BY <2>1 DEF OneCode, Code, cvfVars
  <2>4. FillInv' /\ EndInv'
    BY <1>4, <1>5, <2>1, <2>2, <2>3 DEF CutInv, FillInv, EndInv, cvfVars
  <2> QED BY <1>4, <2>1, <2>4, StageCutInv
<1>6. CASE ReadFails
  <2>1. Happened("read")'
    BY <1>6, FaultsStay DEF ReadFails
  <2> QED BY <2>1 DEF CleanInput
<1>7. CASE SendToFails
  <2>1. SendFails /\ Happened("send")'
    BY <1>1, <1>7, FaultsStay DEF SendToFails
  <2>2. FillInv' /\ EndInv' /\ UNCHANGED <<stream, input, carried, cvfVars>>
    BY <2>1 DEF FillInv, EndInv, SendFails
  <2> QED BY <1>4, <2>2, StageCutInv
<1>8. CASE CvfTalks
  BY <1>3, <1>4, <1>8, FillCutInv, SendNalCutInv, BreakCutInv, DieCutInv, NalTooLongCutInv
     DEF CvfTalks
<1>9. CASE ~ReadFails /\ ~SendToFails /\ ~CvfTalks
  <2>1. UNCHANGED talkerVars
    BY <1>1, <1>9 DEF Next, vars, IecTalks, Tick, PollReturns, Receive, Present,
                      SocketFails, PipeFails, Lose, Stray, Finished
  <2>2. Happened("send") => Happened("send")'
    BY <1>2, <1>9, FaultsStay DEF Happened
  <2> QED BY <1>5, <2>1, <2>2
<1> QED BY <1>6, <1>7, <1>8, <1>9

-----------------------------------------------------------------------------
\* Both talkers send what they read.

\* What has been sent is a beginning of what the input holds, and all of it when
\* there is as much of it.
LEMMA SentSoFar ==
  ASSUME IInv, CutInv
  PROVE  /\ IsPrefix(carried, UnitsOf(stream))
         /\ Len(carried) = Cardinality(StartCodes(stream)) => carried = UnitsOf(stream)
<1>1. /\ stream \in Seq(Byte) /\ carried \in Seq(Seq(Byte)) /\ Len(carried) \in Nat
      /\ Passed \in Nat /\ UnitsSent
  BY CvfTypes DEF CutInv
<1>2. /\ Len(carried) = Cardinality(Below(stream, Passed))
      /\ \A i \in 1 .. Len(carried) : carried[i] = UnitsOf(stream)[i]
  BY <1>1 DEF UnitsSent
<1>3. /\ IsFiniteSet(StartCodes(stream)) /\ Cardinality(StartCodes(stream)) \in Nat
  BY <1>1, CodesFinite
<1>4. Len(carried) <= Cardinality(StartCodes(stream))
  <2>1. Below(stream, Passed) \subseteq StartCodes(stream)
    BY DEF Below
  <2> QED BY <1>2, <1>3, <2>1, FS_Subset
<1>5. PICK n \in Nat : n = Cardinality(StartCodes(stream))
  BY <1>3
<1>6. PICK u : u = UnitsOf(stream)
  OBVIOUS
<1>7. u = [i \in 1 .. n |-> u[i]]
  BY <1>5, <1>6 DEF UnitsOf
<1>8. PICK S : \A i \in 1 .. n : u[i] \in S
  <2>1. \A i \in 1 .. n : u[i] \in {u[j] : j \in 1 .. n}
    OBVIOUS
  <2> QED BY <2>1
<1>9. u \in Seq(S) /\ Len(u) = n
  BY <1>7, <1>8
<1>10. PICK m \in Nat : m = Len(carried) /\ m <= n
  BY <1>1, <1>4, <1>5
<1>11. \A i \in 1 .. m : carried[i] = u[i]
  BY <1>2, <1>6, <1>10
<1>12. carried = [i \in 1 .. m |-> carried[i]]
  BY <1>1, <1>10
<1>13. SubSeq(u, 1, m) = [i \in 1 .. m |-> u[i]]
  BY <1>9, <1>10
<1>14. SubSeq(u, 1, m) = carried
  BY <1>11, <1>12, <1>13
<1>15. IsPrefix(carried, u)
  BY <1>9, <1>10, <1>14 DEF IsPrefix
<1>16. m = n => carried = u
  BY <1>7, <1>11, <1>12
<1> QED BY <1>5, <1>6, <1>10, <1>15, <1>16

VideoInv == IInv /\ NothingSkipped /\ CvfInv

LEMMA InitVideoInv == Init => VideoInv
BY InitIInv, InitNothingSkipped, InitCvfInv DEF VideoInv

LEMMA NextVideoInv == VideoInv /\ [Next]_vars => VideoInv'
BY NextIInv, NextNothingSkipped, NextCvfInv DEF VideoInv

\* However read() cuts up the input, fill_buffer(), start_code_position() and
\* process_nal() of cvf-talker.c make whole NAL units of it, sent in order and none
\* twice, and ieciidc-talker.c sends every byte it reads once and in order.
THEOREM TalkersSendTheirInput == Spec => []PiecesTrue
<1>1. VideoInv => PiecesTrue
  <2> SUFFICES ASSUME VideoInv PROVE PiecesTrue
    OBVIOUS
  <2>1. format \in {"cvf", "iec"} /\ IInv /\ NothingSkipped /\ CvfInv
    BY DEF VideoInv, IInv, TalkerInv
  <2>2. CASE format = "cvf"
    <3>1. CleanInput => IsPrefix(carried, UnitsOf(stream))
      BY <2>1, <2>2, SentSoFar DEF CvfInv
    <3> QED BY <2>2, <3>1 DEF PiecesTrue
  <2>3. CASE format = "iec"
    BY <2>1, <2>3 DEF NothingSkipped, PiecesTrue
  <2> QED BY <2>1, <2>2, <2>3
<1> QED BY <1>1, InitVideoInv, NextVideoInv, PTL DEF Spec

\* cvf-talker.c says it is done (fill_buffer() saw the end of the input) only when
\* every unit has been sent, gives up in process_nal() only over a unit that is
\* longer than a PDU holds, and dies only of a first read() of one byte.
THEOREM TalkerEndsForCause == Spec => []EndsForCause
<1>1. VideoInv => EndsForCause
  <2> SUFFICES ASSUME VideoInv, format = "cvf", CleanInput
               PROVE  /\ stage = "exit 0" => carried = UnitsOf(stream)
                      /\ stage = "exit 1" /\ ~Happened("send") =>
                           Len(UnitsOf(stream)[Len(carried) + 1]) > DataLen
                      /\ stage = "dead" => carried = <<>> /\ Len(buffer) = 1
    BY DEF EndsForCause
  <2>1. IInv /\ CutInv /\ EndInv
    BY DEF VideoInv, CvfInv, CutInv
  <2>2. stage = "exit 0" => carried = UnitsOf(stream)
    BY <2>1, SentSoFar DEF EndInv
  <2> QED BY <2>1, <2>2 DEF EndInv
<1> QED BY <1>1, InitVideoInv, NextVideoInv, PTL DEF Spec
=============================================================================
