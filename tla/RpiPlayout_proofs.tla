-------------------------- MODULE RpiPlayout_proofs --------------------------
(***************************************************************************)
(* Theorems about the playback of the Raspberry Pi listener.               *)
(*                                                                         *)
(* First the rings of xsk-util.c by themselves: for any number of frames   *)
(* that divides the range of the indices, a packet that the kernel has put *)
(* in a ring is read once, in order and unchanged, and no frame is lost or *)
(* in two places.  Then the listener that uses them.                       *)
(***************************************************************************)
EXTENDS RpiPlayout, ModuloLemmas, FiniteSetTheorems, SequenceTheorems

RingPool == INSTANCE FramePool WITH queue <- Received, free <- Free

-----------------------------------------------------------------------------
(* Indices.                                                                *)

\* The size of a ring divides the range of its indices.
LEMMA RingRange ==
  /\ NumFrames \in Nat \ {0}
  /\ IndexMod \in Nat \ {0}
  /\ \E q \in Nat : IndexMod = NumFrames * q
  /\ IndexMod >= NumFrames + 1
<1>1. NumFrames \in Nat \ {0} /\ IndexMod \in Nat /\ IndexMod % NumFrames = 0
      /\ IndexMod > NumFrames
  BY RingAssumption
<1>2. IndexMod = NumFrames * (IndexMod \div NumFrames)
  BY <1>1, DivMod
<1>3. IndexMod \div NumFrames \in Nat
  BY <1>1, SMT
<1> QED BY <1>1, <1>2, <1>3

\* Cutting an index to its range leaves its slot alone.
LEMMA SlotOfIndex ==
  ASSUME NEW x \in Int, NEW i \in Int
  PROVE  Slot((x % IndexMod) + i) = Slot(x + i)
<1> DEFINE t == x \div IndexMod
           r == x % IndexMod
<1>1. NumFrames \in Nat \ {0} /\ IndexMod \in Nat \ {0}
  BY RingRange
<1>2. t \in Int /\ r \in Int /\ x = IndexMod * t + r
  BY <1>1, DivMod
<1>3. PICK q \in Nat : IndexMod = NumFrames * q
  BY RingRange
<1> HIDE DEF t, r
<1>4. IndexMod * t = NumFrames * (q * t)
  BY <1>1, <1>2, <1>3
<1>5. q * t \in Int
  BY <1>2, <1>3
<1>6. x + i = (r + i) + NumFrames * (q * t)
  BY <1>1, <1>2, <1>4, <1>5
<1>7. (r + i + NumFrames * (q * t)) % NumFrames = (r + i) % NumFrames
  <2>1. r + i \in Int
    BY <1>2
  <2> QED BY <1>1, <1>5, <2>1, ModShift
<1> QED BY <1>6, <1>7 DEF Slot, r

\* Different positions less than a ring apart are different slots.
LEMMA SlotInjective ==
  ASSUME NEW c \in Int, NEW i \in 0 .. NumFrames - 1,
         NEW j \in 0 .. NumFrames - 1, Slot(c + i) = Slot(c + j)
  PROVE  i = j
<1>1. NumFrames \in Nat \ {0}
  BY RingRange
<1>2. (((c + i) % NumFrames) - (c % NumFrames)) % NumFrames = i
  BY <1>1, ModGap
<1>3. (((c + j) % NumFrames) - (c % NumFrames)) % NumFrames = j
  BY <1>1, ModGap
<1> QED BY <1>2, <1>3 DEF Slot

\* A slot is one.
LEMMA SlotType ==
  ASSUME NEW x \in Int
  PROVE  Slot(x) \in Frames
BY RingRange, DivMod DEF Slot, Frames

\* A ring's producer is its count ahead of its consumer.
LEMMA ProducerAhead ==
  ASSUME NEW ring \in Ring
  PROVE  /\ Count(ring) \in 0 .. IndexMod - 1
         /\ ring.producer \in Int /\ ring.consumer \in Int
         /\ ring.producer = (ring.consumer + Count(ring)) % IndexMod
<1> DEFINE p == ring.producer
           c == ring.consumer
           n == (p - c) % IndexMod
           t == (p - c) \div IndexMod
<1>1. IndexMod \in Nat \ {0} /\ p \in 0 .. IndexMod - 1 /\ c \in 0 .. IndexMod - 1
  BY RingRange DEF Ring, Indices
<1> HIDE DEF p, c
<1>2. n \in 0 .. IndexMod - 1 /\ t \in Int /\ p - c = IndexMod * t + n
  <2>1. p - c \in Int
    BY <1>1
  <2> QED BY <1>1, <2>1, DivMod
<1> HIDE DEF n, t
<1>3. IndexMod * t \in Int /\ IndexMod * (-t) = -(IndexMod * t)
  BY <1>1, <1>2
<1>4. c + n = p + IndexMod * (-t)
  BY <1>1, <1>2, <1>3
<1>5. (p + IndexMod * (-t)) % IndexMod = p % IndexMod
  <2>1. p \in Int /\ -t \in Int
    BY <1>1, <1>2
  <2> QED BY <1>1, <2>1, ModShift
<1>6. p % IndexMod = p
  <2>1. p = IndexMod * 0 + p
    BY <1>1
  <2> QED BY <1>1, <2>1, ModUnique
<1>7. p = (c + n) % IndexMod
  BY <1>4, <1>5, <1>6
<1> QED BY <1>1, <1>2, <1>7 DEF Count, p, c, n

\* The slot behind a ring's last entry is its producer's.
LEMMA ProducerSlot ==
  ASSUME NEW ring \in Ring, NEW i \in Int
  PROVE  Slot(ring.producer + i) = Slot(ring.consumer + Count(ring) + i)
<1>1. ring.consumer + Count(ring) \in Int
  BY ProducerAhead
<1> QED BY <1>1, ProducerAhead, SlotOfIndex

\* Producing adds to a ring's count,
LEMMA CountProduced ==
  ASSUME NEW ring \in Ring, NEW new \in Ring, NEW n \in Nat,
         Count(ring) + n < IndexMod,
         new.producer = Advance(ring.producer, n),
         new.consumer = ring.consumer
  PROVE  Count(new) = Count(ring) + n
<1> DEFINE c == ring.consumer
           k == Count(ring)
<1>1. IndexMod \in Nat \ {0} /\ k \in Nat /\ c \in 0 .. IndexMod - 1
      /\ ring.producer = (c + k) % IndexMod
  BY RingRange, ProducerAhead DEF Ring, Indices
<1> HIDE DEF c, k
<1>2. new.producer = (c + (k + n)) % IndexMod
  <2>1. (((c + k) % IndexMod) + n) % IndexMod = (c + k + n) % IndexMod
    <3> DEFINE x == c + k
    <3>1. x \in Int
      BY <1>1
    <3> HIDE DEF x
    <3>2. /\ x % IndexMod \in Int /\ x \div IndexMod \in Int
          /\ x = IndexMod * (x \div IndexMod) + (x % IndexMod)
      BY <1>1, <3>1, DivMod
    <3>3. x + n = ((x % IndexMod) + n) + IndexMod * (x \div IndexMod)
      BY <1>1, <3>1, <3>2
    <3>4. (x % IndexMod) + n \in Int
      BY <3>2
    <3>5. (x + n) % IndexMod = ((x % IndexMod) + n) % IndexMod
      BY <1>1, <3>2, <3>3, <3>4, ModShift
    <3> QED BY <3>5 DEF x
  <2>2. c + k + n = c + (k + n)
    BY <1>1
  <2> QED BY <1>1, <2>1, <2>2 DEF Advance
<1>3. c % IndexMod = c
  <2>1. c = IndexMod * 0 + c
    BY <1>1
  <2> QED BY <1>1, <2>1, ModUnique
<1>4. (((c + (k + n)) % IndexMod) - (c % IndexMod)) % IndexMod = k + n
  <2>1. k + n \in 0 .. IndexMod - 1 /\ c \in Int
    <3>1. k + n < IndexMod
      BY DEF k
    <3> QED BY <1>1, <3>1
  <2> QED BY <1>1, <2>1, ModGap
<1> QED BY <1>2, <1>3, <1>4 DEF Count, c, k

\* and consuming takes from it.
LEMMA CountConsumed ==
  ASSUME NEW ring \in Ring, NEW new \in Ring, NEW n \in Nat,
         n <= Count(ring),
         new.consumer = Advance(ring.consumer, n),
         new.producer = ring.producer
  PROVE  Count(new) = Count(ring) - n
<1> DEFINE c == ring.consumer
           k == Count(ring)
<1>1. IndexMod \in Nat \ {0} /\ k \in 0 .. IndexMod - 1 /\ c \in Int
      /\ ring.producer = (c + k) % IndexMod
  BY RingRange, ProducerAhead
<1>2. k - n \in 0 .. IndexMod - 1 /\ c + n \in Int
  BY <1>1
<1> HIDE DEF k
<1>3. ((((c + n) + (k - n)) % IndexMod) - ((c + n) % IndexMod)) % IndexMod = k - n
  BY <1>1, <1>2, ModGap
<1>4. (c + n) + (k - n) = c + k
  BY <1>1
<1> QED BY <1>1, <1>3, <1>4 DEF Count, k, Advance

\* The entries of a ring that has consumed n are those it had behind them.
LEMMA EntryConsumed ==
  ASSUME NEW ring \in Ring, NEW new, NEW n \in Nat, NEW i \in Nat,
         new.consumer = Advance(ring.consumer, n), new.desc = ring.desc
  PROVE  Entry(new, i) = Entry(ring, n + i)
<1>1. ring.consumer \in Int
  BY ProducerAhead
<1>2. Slot(new.consumer + i) = Slot((ring.consumer + n) + i)
  <2>1. ring.consumer + n \in Int /\ i \in Int
    BY <1>1
  <2>2. new.consumer = (ring.consumer + n) % IndexMod
    BY DEF Advance
  <2> QED BY <2>1, <2>2, SlotOfIndex
<1>3. (ring.consumer + n) + i = ring.consumer + (n + i)
  BY <1>1
<1> QED BY <1>2, <1>3 DEF Entry

\* An entry is a frame.
LEMMA EntryType ==
  ASSUME NEW ring \in Ring, NEW i \in Nat
  PROVE  Entry(ring, i) \in Frames
<1>1. ring.consumer + i \in Int
  BY ProducerAhead
<1> QED BY <1>1, SlotType DEF Entry, Ring

\* A number below the size of a ring is its slot, and one before the ring's
\* start is that much before its end.
LEMMA SlotNear ==
  ASSUME NEW x \in (-NumFrames) .. NumFrames - 1
  PROVE  Slot(x) = IF x < 0 THEN x + NumFrames ELSE x
<1>1. NumFrames \in Nat \ {0}
  BY RingRange
<1>2. CASE x < 0
  <2>1. x + NumFrames \in 0 .. NumFrames - 1 /\ x = NumFrames * (-1) + (x + NumFrames)
    BY <1>1, <1>2
  <2>2. (NumFrames * (-1) + (x + NumFrames)) % NumFrames = x + NumFrames
    BY <1>1, <2>1, ModUnique
  <2> QED BY <1>2, <2>1, <2>2 DEF Slot
<1>3. CASE ~(x < 0)
  <2>1. x \in 0 .. NumFrames - 1 /\ x = NumFrames * 0 + x
    BY <1>1, <1>3
  <2>2. (NumFrames * 0 + x) % NumFrames = x
    BY <1>1, <2>1, ModUnique
  <2> QED BY <1>3, <2>1, <2>2 DEF Slot
<1> QED BY <1>2, <1>3

\* Where the slot of an entry is, seen from the ring's producer.
LEMMA SlotBehind ==
  ASSUME NEW ring \in Ring, NEW k \in Int
  PROVE  Slot(Slot(ring.consumer + k) - ring.producer) = Slot(k - Count(ring))
<1> DEFINE c == ring.consumer
           p == ring.producer
           m == Count(ring)
           a == (c + k) \div NumFrames
           b == p \div NumFrames
           d == (c + m) \div NumFrames
<1>1. NumFrames \in Nat \ {0} /\ c \in Int /\ p \in Int /\ m \in Int
  BY RingRange, ProducerAhead
<1>2. p % NumFrames = (c + m) % NumFrames
  <2>1. Slot(p + 0) = Slot(c + m + 0)
    BY <1>1, ProducerSlot
  <2>2. p + 0 = p /\ c + m + 0 = c + m
    BY <1>1
  <2> QED BY <2>1, <2>2 DEF Slot
<1> HIDE DEF c, p, m
<1>3. /\ a \in Int /\ Slot(c + k) \in Int
      /\ c + k = NumFrames * a + Slot(c + k)
  <2>1. c + k \in Int
    BY <1>1
  <2> QED BY <1>1, <2>1, DivMod DEF Slot
<1>4. b \in Int /\ d \in Int /\ p - (c + m) = NumFrames * b - NumFrames * d
  <2>1. c + m \in Int
    BY <1>1
  <2>2. /\ b \in Int /\ p % NumFrames \in Int
        /\ p = NumFrames * b + (p % NumFrames)
    BY <1>1, DivMod
  <2>3. /\ d \in Int
        /\ c + m = NumFrames * d + ((c + m) % NumFrames)
    BY <1>1, <2>1, DivMod
  <2> HIDE DEF b, d
  <2>4. NumFrames * b \in Int /\ NumFrames * d \in Int
    BY <1>1, <2>2, <2>3
  <2> QED BY <1>1, <1>2, <2>2, <2>3, <2>4
<1> HIDE DEF a, b, d
<1>5. NumFrames * (d - b - a) = NumFrames * d - NumFrames * b - NumFrames * a
  BY <1>1, <1>3, <1>4
<1>6. Slot(c + k) - p = (k - m) + NumFrames * (d - b - a)
  <2>1. NumFrames * a \in Int /\ NumFrames * b \in Int /\ NumFrames * d \in Int
    BY <1>1, <1>3, <1>4
  <2> QED BY <1>1, <1>3, <1>4, <1>5, <2>1
<1>7. ((k - m) + NumFrames * (d - b - a)) % NumFrames = (k - m) % NumFrames
  <2>1. k - m \in Int /\ d - b - a \in Int
    BY <1>1, <1>3, <1>4
  <2> QED BY <1>1, <2>1, ModShift
<1>8. (Slot(c + k) - p) % NumFrames = (k - m) % NumFrames
  BY <1>6, <1>7
<1> QED BY <1>8 DEF Slot, c, p, m

-----------------------------------------------------------------------------
(* The invariant: every frame is in one place.                             *)

\* The receive ring is never overfull, nor released beyond what it holds.
Bounded == recycled <= Count(rx) /\ Count(rx) <= NumFrames

\* The frames in the fill ring, in the driver and in the receive ring add up.
Conserved == Count(fq) + Cardinality(nic) + (Count(rx) - recycled) = NumFrames

\* No frame is in a ring twice,
FillDistinct ==
  \A i, j \in 0 .. Count(fq) - 1 : Entry(fq, i) = Entry(fq, j) => i = j
RxDistinct ==
  \A i, j \in recycled .. Count(rx) - 1 : Entry(rx, i) = Entry(rx, j) => i = j

\* nor in two places.
Apart ==
  /\ \A i \in 0 .. Count(fq) - 1 : Entry(fq, i) \notin nic
  /\ \A i \in recycled .. Count(rx) - 1 : Entry(rx, i) \notin nic
  /\ \A i \in 0 .. Count(fq) - 1, j \in recycled .. Count(rx) - 1 :
       Entry(fq, i) # Entry(rx, j)

IInv ==
  RingsTypeOK /\ Bounded /\ Conserved /\ FillDistinct /\ RxDistinct /\ Apart

\* Counts are numbers, and the driver's frames a finite set.
LEMMA CountsNat ==
  ASSUME RingsTypeOK
  PROVE  /\ Count(fq) \in Nat /\ Count(rx) \in Nat /\ recycled \in Nat
         /\ NumFrames \in Nat \ {0}
         /\ IsFiniteSet(nic) /\ Cardinality(nic) \in Nat
<1>1. fq \in Ring /\ rx \in Ring /\ recycled \in Nat /\ nic \subseteq Frames
      /\ NumFrames \in Nat \ {0}
  BY RingRange DEF RingsTypeOK
<1>2. Count(fq) \in Nat /\ Count(rx) \in Nat
  BY <1>1, ProducerAhead
<1>3. IsFiniteSet(Frames)
  BY <1>1, FS_Interval DEF Frames
<1>4. IsFiniteSet(nic) /\ Cardinality(nic) \in Nat
  BY <1>1, <1>3, FS_Subset, FS_CardinalityType
<1> QED BY <1>1, <1>2, <1>4

\* An index that is advanced is one.
LEMMA AdvanceType ==
  ASSUME NEW x \in Int, NEW n \in Int
  PROVE  Advance(x, n) \in Indices
<1>1. x + n \in Int
  OBVIOUS
<1> QED BY <1>1, RingRange, DivMod DEF Advance, Indices

\* What Take does to the rings.
LEMMA TakeEntries ==
  ASSUME RingsTypeOK, Take
  PROVE  /\ fq' \in Ring
         /\ Count(fq') = Count(fq) - 1
         /\ \A i \in Nat : Entry(fq', i) = Entry(fq, i + 1)
         /\ Count(fq) > 0 /\ nic' = nic \cup {Entry(fq, 0)}
<1>1. fq \in Ring /\ Count(fq) \in Nat /\ Count(fq) > 0
  BY CountsNat DEF RingsTypeOK, Take
<1>2. /\ fq' = [fq EXCEPT !.consumer = Advance(fq.consumer, 1)]
      /\ Advance(fq.consumer, 1) \in Indices
  BY <1>1, AdvanceType, ProducerAhead DEF Take
<1>3. /\ fq' \in Ring /\ fq'.desc = fq.desc /\ fq'.producer = fq.producer
      /\ fq'.consumer = Advance(fq.consumer, 1)
  BY <1>1, <1>2 DEF Ring
<1>4. Count(fq') = Count(fq) - 1
  BY <1>1, <1>3, CountConsumed
<1>5. ASSUME NEW i \in Nat
      PROVE  Entry(fq', i) = Entry(fq, i + 1)
  <2>1. Entry(fq', i) = Entry(fq, 1 + i)
    BY <1>1, <1>3, EntryConsumed
  <2>2. 1 + i = i + 1
    OBVIOUS
  <2> QED BY <2>1, <2>2
<1> QED BY <1>1, <1>3, <1>4, <1>5 DEF Take

\* What delivering a packet in frame f does to the receive ring.
LEMMA DeliverEntries ==
  ASSUME RingsTypeOK, Count(rx) < NumFrames, NEW f \in Frames,
         rx' = [rx EXCEPT !.desc[Slot(rx.producer)] = f,
                          !.producer = Advance(rx.producer, 1)]
  PROVE  /\ rx' \in Ring
         /\ Count(rx') = Count(rx) + 1
         /\ \A i \in 0 .. Count(rx) - 1 : Entry(rx', i) = Entry(rx, i)
         /\ Entry(rx', Count(rx)) = f
<1> DEFINE r == rx.producer
<1>1. /\ rx \in Ring /\ Count(rx) \in Nat /\ r \in Int /\ rx.consumer \in Int
      /\ NumFrames \in Nat \ {0} /\ IndexMod >= NumFrames + 1 /\ IndexMod \in Nat
  BY CountsNat, RingRange, ProducerAhead DEF RingsTypeOK
<1>2. Slot(r) \in Frames /\ Advance(r, 1) \in Indices
  BY <1>1, SlotType, AdvanceType
<1>3. /\ rx' \in Ring /\ rx'.consumer = rx.consumer
      /\ rx'.producer = Advance(r, 1)
      /\ rx'.desc = [rx.desc EXCEPT ![Slot(r)] = f]
  BY <1>1, <1>2 DEF Ring
<1>4. Count(rx') = Count(rx) + 1
  <2>1. Count(rx) + 1 < IndexMod
    BY <1>1
  <2> QED BY <1>1, <1>3, <2>1, CountProduced
<1>5. Slot(r) = Slot(rx.consumer + Count(rx))
  <2>1. Slot(r + 0) = Slot(rx.consumer + Count(rx) + 0)
    BY <1>1, ProducerSlot
  <2>2. r + 0 = r /\ rx.consumer + Count(rx) + 0 = rx.consumer + Count(rx)
    BY <1>1
  <2> QED BY <2>1, <2>2
<1>6. Entry(rx', Count(rx)) = f
  BY <1>1, <1>2, <1>3, <1>5 DEF Entry, Ring
<1>7. ASSUME NEW i \in 0 .. Count(rx) - 1
      PROVE  Entry(rx', i) = Entry(rx, i)
  <2>1. i \in 0 .. NumFrames - 1 /\ Count(rx) \in 0 .. NumFrames - 1
        /\ i # Count(rx)
    BY <1>1
  <2>2. Slot(rx.consumer + i) # Slot(r)
    BY <1>1, <1>5, <2>1, SlotInjective
  <2>3. Slot(rx.consumer + i) \in Frames
    BY <1>1, SlotType
  <2> QED BY <1>1, <1>3, <2>2, <2>3 DEF Entry, Ring
<1> QED BY <1>3, <1>4, <1>6, <1>7

\* What the first store of a release of n entries does to the fill ring.
LEMMA RecycleEntries ==
  ASSUME RingsTypeOK, NEW n \in Nat, n <= Count(rx),
         Count(fq) + n <= NumFrames, Recycle(n)
  PROVE  /\ fq' \in Ring
         /\ Count(fq') = Count(fq) + n
         /\ \A i \in 0 .. Count(fq) - 1 : Entry(fq', i) = Entry(fq, i)
         /\ \A i \in 0 .. n - 1 : Entry(fq', Count(fq) + i) = Entry(rx, i)
<1> DEFINE c == fq.consumer
           m == Count(fq)
           From(s) == Slot(s - fq.producer)
<1>1. /\ fq \in Ring /\ rx \in Ring /\ m \in Nat /\ c \in Int
      /\ fq.producer \in Int
      /\ NumFrames \in Nat \ {0} /\ IndexMod >= NumFrames + 1 /\ IndexMod \in Nat
  BY CountsNat, RingRange, ProducerAhead DEF RingsTypeOK
<1>2. ASSUME NEW s \in Frames
      PROVE  From(s) \in Nat
  <2>1. s - fq.producer \in Int
    BY <1>1 DEF Frames
  <2> QED BY <2>1, SlotType DEF Frames
<1>3. /\ fq'.desc = [s \in Frames |-> IF From(s) < n THEN Entry(rx, From(s))
                                      ELSE fq.desc[s]]
      /\ fq'.producer = Advance(fq.producer, n) /\ fq'.consumer = c
      /\ fq' \in Ring
  <2>1. fq' = [fq EXCEPT
                 !.desc = [s \in Frames |-> IF From(s) < n THEN Entry(rx, From(s))
                                           ELSE fq.desc[s]],
                 !.producer = Advance(fq.producer, n)]
    BY DEF Recycle, Returned
  <2>2. Advance(fq.producer, n) \in Indices
    BY <1>1, AdvanceType
  <2>3. \A s \in Frames : Entry(rx, From(s)) \in Frames /\ fq.desc[s] \in Frames
    BY <1>1, <1>2, EntryType DEF Ring
  <2> HIDE DEF From
  <2> QED BY <1>1, <2>1, <2>2, <2>3 DEF Ring
<1>4. Count(fq') = m + n
  <2>1. m + n < IndexMod
    BY <1>1
  <2> QED BY <1>1, <1>3, <2>1, CountProduced
<1>5. ASSUME NEW k \in 0 .. m + n - 1
      PROVE  /\ From(Slot(c + k)) = Slot(k - m)
             /\ Entry(fq', k) = IF Slot(k - m) < n THEN Entry(rx, Slot(k - m))
                                ELSE Entry(fq, k)
  <2>1. From(Slot(c + k)) = Slot(k - m)
    BY <1>1, SlotBehind
  <2>2. Slot(c + k) \in Frames
    BY <1>1, SlotType
  <2> HIDE DEF From
  <2> QED BY <1>1, <1>3, <2>1, <2>2 DEF Entry
<1>6. ASSUME NEW i \in 0 .. m - 1
      PROVE  Entry(fq', i) = Entry(fq, i)
  <2>1. i - m \in (-NumFrames) .. NumFrames - 1 /\ i - m < 0
    BY <1>1
  <2>2. Slot(i - m) = i - m + NumFrames
    BY <2>1, SlotNear
  <2>3. i \in 0 .. m + n - 1 /\ ~(i - m + NumFrames < n)
    BY <1>1
  <2> QED BY <1>5, <2>2, <2>3
<1>7. ASSUME NEW i \in 0 .. n - 1
      PROVE  Entry(fq', m + i) = Entry(rx, i)
  <2>1. i \in (-NumFrames) .. NumFrames - 1 /\ ~(i < 0) /\ (m + i) - m = i
    BY <1>1
  <2>2. Slot((m + i) - m) = i
    BY <2>1, SlotNear
  <2>3. m + i \in 0 .. m + n - 1 /\ i < n
    BY <1>1
  <2> QED BY <1>5, <2>2, <2>3
<1> QED BY <1>3, <1>4, <1>6, <1>7

\* What its second store does to the receive ring.
LEMMA AdvanceEntries ==
  ASSUME RingsTypeOK, Bounded, AdvanceConsumer
  PROVE  /\ rx' \in Ring
         /\ Count(rx') = Count(rx) - recycled
         /\ \A i \in Nat : Entry(rx', i) = Entry(rx, recycled + i)
<1>1. rx \in Ring /\ recycled \in Nat /\ recycled <= Count(rx)
  BY CountsNat DEF RingsTypeOK, Bounded
<1>2. /\ rx' = [rx EXCEPT !.consumer = Advance(rx.consumer, recycled)]
      /\ Advance(rx.consumer, recycled) \in Indices
  BY <1>1, AdvanceType, ProducerAhead DEF AdvanceConsumer
<1>3. /\ rx' \in Ring /\ rx'.desc = rx.desc /\ rx'.producer = rx.producer
      /\ rx'.consumer = Advance(rx.consumer, recycled)
  BY <1>1, <1>2 DEF Ring
<1>4. Count(rx') = Count(rx) - recycled
  BY <1>1, <1>3, CountConsumed
<1>5. \A i \in Nat : Entry(rx', i) = Entry(rx, recycled + i)
  BY <1>1, <1>3, EntryConsumed
<1> QED BY <1>3, <1>4, <1>5

-----------------------------------------------------------------------------
(* Its steps.                                                              *)

\* A count that starts from index 0.
LEMMA CountFromZero ==
  ASSUME NEW ring, ring.consumer = 0, ring.producer \in 0 .. NumFrames
  PROVE  Count(ring) = ring.producer
<1>1. /\ IndexMod \in Nat \ {0} /\ NumFrames \in Nat
      /\ ring.producer \in 0 .. IndexMod - 1
  BY RingRange
<1>2. ring.producer - 0 = IndexMod * 0 + ring.producer
  BY <1>1
<1>3. (IndexMod * 0 + ring.producer) % IndexMod = ring.producer
  BY <1>1, ModUnique
<1> QED BY <1>2, <1>3 DEF Count

\* The rings of a new socket: every frame is in the fill ring.
Populated ==
  /\ fq = [desc |-> [s \in Frames |-> s], producer |-> NumFrames, consumer |-> 0]
  /\ rx \in Ring /\ rx.producer = 0 /\ rx.consumer = 0
  /\ nic = {}
  /\ recycled = 0

\* What they hold.
LEMMA PopulatedRings ==
  ASSUME Populated
  PROVE  /\ Count(fq) = NumFrames /\ Count(rx) = 0
         /\ \A i \in 0 .. NumFrames - 1 : Entry(fq, i) = i
<1>1. /\ NumFrames \in Nat \ {0} /\ IndexMod \in Nat /\ IndexMod >= NumFrames + 1
  BY RingRange
<1>2. Count(fq) = NumFrames /\ Count(rx) = 0
  <2>1. /\ fq.consumer = 0 /\ fq.producer = NumFrames
        /\ rx.consumer = 0 /\ rx.producer = 0
    BY DEF Populated
  <2> QED BY <1>1, <2>1, CountFromZero
<1>3. ASSUME NEW i \in 0 .. NumFrames - 1
      PROVE  Entry(fq, i) = i
  <2>1. Slot(0 + i) = i
    BY <1>1, SlotNear
  <2> QED BY <1>1, <2>1 DEF Entry, Populated, Frames
<1> QED BY <1>2, <1>3

\* Every frame starts in the fill ring.
LEMMA PopulatedInv == Populated => IInv
<1> SUFFICES ASSUME Populated PROVE IInv
  OBVIOUS
<1>1. /\ NumFrames \in Nat \ {0} /\ IndexMod \in Nat /\ IndexMod >= NumFrames + 1
  BY RingRange
<1>2. RingsTypeOK
  BY <1>1 DEF Populated, RingsTypeOK, Ring, Indices, Frames
<1>3. /\ Count(fq) = NumFrames /\ Count(rx) = 0
      /\ \A i \in 0 .. NumFrames - 1 : Entry(fq, i) = i
  BY PopulatedRings
<1>4. nic = {} /\ recycled = 0 /\ Cardinality(nic) = 0
  BY FS_EmptySet DEF Populated
<1>5. Bounded /\ Conserved
  BY <1>1, <1>3, <1>4 DEF Bounded, Conserved
<1>6. FillDistinct
  BY <1>1, <1>3 DEF FillDistinct
<1>7. RxDistinct /\ Apart
  BY <1>1, <1>3, <1>4 DEF RxDistinct, Apart
<1> QED BY <1>2, <1>5, <1>6, <1>7 DEF IInv

LEMMA InitPopulated == RingsInit => Populated
BY RingRange DEF RingsInit, Populated, Ring, Indices, Frames

\* A frame the driver takes leaves the fill ring.
LEMMA TakeInv == IInv /\ Take => IInv'
<1> SUFFICES ASSUME IInv, Take PROVE IInv'
  OBVIOUS
<1> DEFINE F == Count(fq)
           R == Count(rx)
           f == Entry(fq, 0)
<1>1. /\ F \in Nat /\ R \in Nat /\ recycled \in Nat /\ NumFrames \in Nat
      /\ IsFiniteSet(nic) /\ Cardinality(nic) \in Nat
  BY CountsNat DEF IInv
<1>2. /\ fq' \in Ring /\ Count(fq') = F - 1 /\ F > 0
      /\ \A i \in Nat : Entry(fq', i) = Entry(fq, i + 1)
      /\ nic' = nic \cup {f}
      /\ UNCHANGED <<rx, umem, recycled>>
  BY TakeEntries DEF IInv, Take
<1>3. f \in Frames
  BY EntryType DEF IInv, RingsTypeOK
<1>4. RingsTypeOK'
  BY <1>2, <1>3 DEF IInv, RingsTypeOK
<1>5. Bounded'
  BY <1>2 DEF IInv, Bounded
<1>6. Conserved'
  <2>1. f \notin nic
    BY <1>1, <1>2 DEF IInv, Apart
  <2>2. Cardinality(nic') = Cardinality(nic) + 1
    BY <1>1, <1>2, <2>1, FS_AddElement
  <2> QED BY <1>1, <1>2, <2>2 DEF IInv, Conserved
<1>7. FillDistinct'
  <2> SUFFICES ASSUME NEW i \in 0 .. Count(fq') - 1, NEW j \in 0 .. Count(fq') - 1,
                      Entry(fq', i) = Entry(fq', j)
               PROVE  i = j
    BY DEF FillDistinct
  <2>1. i + 1 \in 0 .. F - 1 /\ j + 1 \in 0 .. F - 1
    BY <1>1, <1>2
  <2>2. Entry(fq, i + 1) = Entry(fq, j + 1)
    BY <1>2
  <2>3. i + 1 = j + 1
    BY <2>1, <2>2 DEF IInv, FillDistinct
  <2> QED BY <2>3
<1>8. RxDistinct'
  BY <1>2 DEF IInv, RxDistinct
<1>9. Apart'
  <2>1. ASSUME NEW i \in 0 .. Count(fq') - 1
        PROVE  Entry(fq', i) \notin nic'
    <3>1. i + 1 \in 0 .. F - 1 /\ 0 \in 0 .. F - 1 /\ i + 1 # 0
      BY <1>1, <1>2
    <3>2. Entry(fq, i + 1) \notin nic /\ Entry(fq, i + 1) # f
      BY <3>1 DEF IInv, Apart, FillDistinct
    <3> QED BY <1>2, <3>2
  <2>2. ASSUME NEW j \in recycled' .. Count(rx') - 1
        PROVE  Entry(rx', j) \notin nic'
    <3>1. 0 \in 0 .. F - 1 /\ j \in recycled .. R - 1
      BY <1>1, <1>2
    <3>2. Entry(rx, j) \notin nic /\ f # Entry(rx, j)
      BY <3>1 DEF IInv, Apart
    <3> QED BY <1>2, <3>2
  <2>3. ASSUME NEW i \in 0 .. Count(fq') - 1, NEW j \in recycled' .. Count(rx') - 1
        PROVE  Entry(fq', i) # Entry(rx', j)
    <3>1. i + 1 \in 0 .. F - 1 /\ j \in recycled .. R - 1
      BY <1>1, <1>2
    <3>2. Entry(fq, i + 1) # Entry(rx, j)
      BY <3>1 DEF IInv, Apart
    <3> QED BY <1>2, <3>2
  <2> QED BY <2>1, <2>2, <2>3 DEF Apart
<1> QED BY <1>4, <1>5, <1>6, <1>7, <1>8, <1>9 DEF IInv

\* What a delivery does, with its frame named.
LEMMA DeliverFrame ==
  ASSUME IInv, NEW p, Deliver(p)
  PROVE  \E f \in nic :
           /\ f \in Frames
           /\ umem' = [umem EXCEPT ![f] = p] /\ nic' = nic \ {f}
           /\ UNCHANGED <<fq, recycled>>
           /\ rx' \in Ring /\ Count(rx') = Count(rx) + 1
           /\ \A i \in 0 .. Count(rx) - 1 : Entry(rx', i) = Entry(rx, i)
           /\ Entry(rx', Count(rx)) = f
           /\ Count(rx) < NumFrames
<1>1. PICK f \in nic :
        /\ umem' = [umem EXCEPT ![f] = p]
        /\ rx' = [rx EXCEPT !.desc[Slot(rx.producer)] = f,
                            !.producer = Advance(rx.producer, 1)]
        /\ nic' = nic \ {f}
  BY DEF Deliver
<1>2. RingsTypeOK /\ f \in Frames /\ Count(rx) < NumFrames /\ UNCHANGED <<fq, recycled>>
  BY DEF IInv, RingsTypeOK, Deliver, Room
<1>3. /\ rx' \in Ring /\ Count(rx') = Count(rx) + 1
      /\ \A i \in 0 .. Count(rx) - 1 : Entry(rx', i) = Entry(rx, i)
      /\ Entry(rx', Count(rx)) = f
  BY <1>1, <1>2, DeliverEntries
<1> QED BY <1>1, <1>2, <1>3

\* A delivered frame leaves the driver for the receive ring.
LEMMA DeliverInv ==
  ASSUME IInv, NEW p, Deliver(p)
  PROVE  IInv'
<1> DEFINE F == Count(fq)
           R == Count(rx)
<1>1. /\ F \in Nat /\ R \in Nat /\ recycled \in Nat /\ NumFrames \in Nat
      /\ IsFiniteSet(nic) /\ Cardinality(nic) \in Nat /\ recycled <= R
  BY CountsNat DEF IInv, Bounded
<1>2. PICK f \in nic :
        /\ f \in Frames
        /\ umem' = [umem EXCEPT ![f] = p] /\ nic' = nic \ {f}
        /\ UNCHANGED <<fq, recycled>>
        /\ rx' \in Ring /\ Count(rx') = R + 1
        /\ \A i \in 0 .. R - 1 : Entry(rx', i) = Entry(rx, i)
        /\ Entry(rx', R) = f
        /\ R < NumFrames
  BY DeliverFrame
<1>3. RingsTypeOK'
  BY <1>2 DEF IInv, RingsTypeOK
<1>4. Bounded'
  BY <1>1, <1>2 DEF Bounded
<1>5. Conserved'
  <2>1. Cardinality(nic') = Cardinality(nic) - 1
    BY <1>1, <1>2, FS_RemoveElement
  <2> QED BY <1>1, <1>2, <2>1 DEF IInv, Conserved
<1>6. FillDistinct'
  BY <1>2 DEF IInv, FillDistinct
<1>7. \A j \in recycled .. R - 1 : Entry(rx', j) = Entry(rx, j) /\ Entry(rx, j) \notin nic
  BY <1>1, <1>2 DEF IInv, Apart
<1>8. RxDistinct'
  <2> SUFFICES ASSUME NEW i \in recycled' .. Count(rx') - 1,
                      NEW j \in recycled' .. Count(rx') - 1,
                      Entry(rx', i) = Entry(rx', j)
               PROVE  i = j
    BY DEF RxDistinct
  <2>1. i \in recycled .. R /\ j \in recycled .. R
    BY <1>1, <1>2
  <2>2. CASE i = R \/ j = R
    <3>1. (i = R => j = R) /\ (j = R => i = R)
      BY <1>1, <1>2, <1>7, <2>1
    <3> QED BY <2>2, <3>1
  <2>3. CASE i # R /\ j # R
    <3>1. i \in recycled .. R - 1 /\ j \in recycled .. R - 1
      BY <1>1, <2>1, <2>3
    <3> QED BY <1>7, <3>1 DEF IInv, RxDistinct
  <2> QED BY <2>2, <2>3
<1>9. Apart'
  <2>1. \A i \in 0 .. Count(fq') - 1 : Entry(fq', i) \notin nic'
    BY <1>2 DEF IInv, Apart
  <2>2. ASSUME NEW j \in recycled' .. Count(rx') - 1
        PROVE  Entry(rx', j) \notin nic'
    <3>1. j = R \/ j \in recycled .. R - 1
      BY <1>1, <1>2
    <3> QED BY <1>2, <1>7, <3>1
  <2>3. ASSUME NEW i \in 0 .. Count(fq') - 1, NEW j \in recycled' .. Count(rx') - 1
        PROVE  Entry(fq', i) # Entry(rx', j)
    <3>1. i \in 0 .. F - 1 /\ (j = R \/ j \in recycled .. R - 1)
      BY <1>1, <1>2
    <3>2. Entry(fq', i) = Entry(fq, i) /\ Entry(fq, i) \notin nic
      BY <1>2, <3>1 DEF IInv, Apart
    <3>3. CASE j = R
      BY <1>2, <3>2, <3>3
    <3>4. CASE j \in recycled .. R - 1
      BY <1>7, <3>1, <3>2, <3>4 DEF IInv, Apart
    <3> QED BY <3>1, <3>3, <3>4
  <2> QED BY <2>1, <2>2, <2>3 DEF Apart
<1> QED BY <1>3, <1>4, <1>5, <1>6, <1>8, <1>9 DEF IInv

\* What a first store does, when the frames are all there.
LEMMA RecycleFrames ==
  ASSUME IInv, NEW n \in 1 .. Count(rx), Recycle(n)
  PROVE  /\ UNCHANGED <<rx, nic, umem>> /\ recycled = 0 /\ recycled' = n
         /\ fq' \in Ring /\ Count(fq') = Count(fq) + n
         /\ \A i \in 0 .. Count(fq) - 1 : Entry(fq', i) = Entry(fq, i)
         /\ \A i \in 0 .. n - 1 : Entry(fq', Count(fq) + i) = Entry(rx, i)
<1>1. /\ Count(fq) \in Nat /\ Count(rx) \in Nat /\ Cardinality(nic) \in Nat
      /\ NumFrames \in Nat /\ recycled \in Nat
  BY CountsNat DEF IInv
<1>2. UNCHANGED <<rx, nic, umem>> /\ recycled = 0 /\ recycled' = n
  BY DEF Recycle
<1>3. n \in Nat /\ n <= Count(rx) /\ Count(fq) + n <= NumFrames
  BY <1>1, <1>2 DEF IInv, Conserved
<1> QED BY <1>2, <1>3, RecycleEntries DEF IInv

\* A released frame is in the fill ring before it leaves the receive ring, and
\* counts once.
LEMMA RecycleInv ==
  ASSUME IInv, NEW n \in 1 .. Count(rx), Recycle(n)
  PROVE  IInv'
<1> DEFINE F == Count(fq)
           R == Count(rx)
<1>1. /\ F \in Nat /\ R \in Nat /\ NumFrames \in Nat /\ R <= NumFrames
      /\ Cardinality(nic) \in Nat
  BY CountsNat DEF IInv, Bounded
<1>2. /\ UNCHANGED <<rx, nic, umem>> /\ recycled = 0 /\ recycled' = n
      /\ fq' \in Ring /\ Count(fq') = F + n
      /\ \A i \in 0 .. F - 1 : Entry(fq', i) = Entry(fq, i)
      /\ \A i \in 0 .. n - 1 : Entry(fq', F + i) = Entry(rx, i)
  BY RecycleFrames
<1>3. ASSUME NEW i \in 0 .. Count(fq') - 1
      PROVE  \/ i \in 0 .. F - 1 /\ Entry(fq', i) = Entry(fq, i)
             \/ i - F \in 0 .. n - 1 /\ Entry(fq', i) = Entry(rx, i - F)
  <2>1. CASE i < F
    <3>1. i \in 0 .. F - 1
      BY <1>1, <2>1
    <3> QED BY <1>2, <3>1
  <2>2. CASE ~(i < F)
    <3>1. i - F \in 0 .. n - 1 /\ F + (i - F) = i
      BY <1>1, <1>2, <2>2
    <3>2. Entry(fq', F + (i - F)) = Entry(rx, i - F)
      BY <1>2, <3>1
    <3> QED BY <3>1, <3>2
  <2> QED BY <2>1, <2>2
<1>4. RingsTypeOK'
  BY <1>1, <1>2 DEF IInv, RingsTypeOK
<1>5. Bounded' /\ Conserved'
  BY <1>1, <1>2 DEF IInv, Bounded, Conserved
<1>6. FillDistinct'
  <2> SUFFICES ASSUME NEW i \in 0 .. Count(fq') - 1, NEW j \in 0 .. Count(fq') - 1,
                      Entry(fq', i) = Entry(fq', j)
               PROVE  i = j
    BY DEF FillDistinct
  <2>1. CASE i \in 0 .. F - 1 /\ Entry(fq', i) = Entry(fq, i)
    <3>1. CASE j \in 0 .. F - 1 /\ Entry(fq', j) = Entry(fq, j)
      BY <2>1, <3>1 DEF IInv, FillDistinct
    <3>2. CASE j - F \in 0 .. n - 1 /\ Entry(fq', j) = Entry(rx, j - F)
      <4>1. j - F \in recycled .. R - 1
        BY <1>1, <1>2, <3>2
      <4> QED BY <2>1, <3>2, <4>1 DEF IInv, Apart
    <3> QED BY <1>3, <3>1, <3>2
  <2>2. CASE i - F \in 0 .. n - 1 /\ Entry(fq', i) = Entry(rx, i - F)
    <3>0. i - F \in recycled .. R - 1
      BY <1>1, <1>2, <2>2
    <3>1. CASE j \in 0 .. F - 1 /\ Entry(fq', j) = Entry(fq, j)
      BY <2>2, <3>0, <3>1 DEF IInv, Apart
    <3>2. CASE j - F \in 0 .. n - 1 /\ Entry(fq', j) = Entry(rx, j - F)
      <4>1. j - F \in recycled .. R - 1
        BY <1>1, <1>2, <3>2
      <4>2. i - F = j - F
        BY <2>2, <3>0, <3>2, <4>1 DEF IInv, RxDistinct
      <4> QED BY <1>1, <1>2, <4>2
    <3> QED BY <1>3, <3>1, <3>2
  <2> QED BY <1>3, <2>1, <2>2
<1>7. n .. R - 1 \subseteq recycled .. R - 1
  BY <1>1, <1>2
<1>8. RxDistinct'
  BY <1>2, <1>7 DEF IInv, RxDistinct
<1>9. Apart'
  <2>1. ASSUME NEW i \in 0 .. Count(fq') - 1
        PROVE  Entry(fq', i) \notin nic'
    <3>1. CASE i \in 0 .. F - 1 /\ Entry(fq', i) = Entry(fq, i)
      BY <1>2, <3>1 DEF IInv, Apart
    <3>2. CASE i - F \in 0 .. n - 1 /\ Entry(fq', i) = Entry(rx, i - F)
      <4>1. i - F \in recycled .. R - 1
        BY <1>1, <1>2, <3>2
      <4> QED BY <1>2, <3>2, <4>1 DEF IInv, Apart
    <3> QED BY <1>3, <3>1, <3>2
  <2>2. \A j \in recycled' .. Count(rx') - 1 : Entry(rx', j) \notin nic'
    BY <1>2, <1>7 DEF IInv, Apart
  <2>3. ASSUME NEW i \in 0 .. Count(fq') - 1, NEW j \in recycled' .. Count(rx') - 1
        PROVE  Entry(fq', i) # Entry(rx', j)
    <3>0. j \in recycled .. R - 1 /\ j \in n .. R - 1 /\ Entry(rx', j) = Entry(rx, j)
      BY <1>2, <1>7
    <3>1. CASE i \in 0 .. F - 1 /\ Entry(fq', i) = Entry(fq, i)
      BY <3>0, <3>1 DEF IInv, Apart
    <3>2. CASE i - F \in 0 .. n - 1 /\ Entry(fq', i) = Entry(rx, i - F)
      <4>1. i - F \in recycled .. R - 1 /\ i - F # j
        BY <1>1, <1>2, <3>0, <3>2
      <4> QED BY <3>0, <3>2, <4>1 DEF IInv, RxDistinct
    <3> QED BY <1>3, <3>1, <3>2
  <2> QED BY <2>1, <2>2, <2>3 DEF Apart
<1> QED BY <1>4, <1>5, <1>6, <1>8, <1>9 DEF IInv

\* The second store drops the entries that were released.
LEMMA AdvanceInv == IInv /\ AdvanceConsumer => IInv'
<1> SUFFICES ASSUME IInv, AdvanceConsumer PROVE IInv'
  OBVIOUS
<1> DEFINE R == Count(rx)
<1>1. /\ R \in Nat /\ recycled \in Nat /\ NumFrames \in Nat /\ recycled <= R
      /\ R <= NumFrames /\ Count(fq) \in Nat /\ Cardinality(nic) \in Nat
  BY CountsNat DEF IInv, Bounded
<1>2. /\ rx' \in Ring /\ Count(rx') = R - recycled
      /\ \A i \in Nat : Entry(rx', i) = Entry(rx, recycled + i)
      /\ recycled' = 0 /\ UNCHANGED <<fq, nic, umem>>
  BY AdvanceEntries DEF IInv, AdvanceConsumer
<1>3. ASSUME NEW j \in recycled' .. Count(rx') - 1
      PROVE  recycled + j \in recycled .. R - 1 /\ Entry(rx', j) = Entry(rx, recycled + j)
  BY <1>1, <1>2
<1>4. RingsTypeOK'
  BY <1>1, <1>2 DEF IInv, RingsTypeOK
<1>5. Bounded' /\ Conserved'
  BY <1>1, <1>2 DEF IInv, Bounded, Conserved
<1>6. FillDistinct'
  BY <1>2 DEF IInv, FillDistinct
<1>7. RxDistinct'
  <2> SUFFICES ASSUME NEW i \in recycled' .. Count(rx') - 1,
                      NEW j \in recycled' .. Count(rx') - 1,
                      Entry(rx', i) = Entry(rx', j)
               PROVE  i = j
    BY DEF RxDistinct
  <2>1. recycled + i = recycled + j
    BY <1>3 DEF IInv, RxDistinct
  <2> QED BY <1>1, <1>2, <2>1
<1>8. Apart'
  <2>1. \A i \in 0 .. Count(fq') - 1 : Entry(fq', i) \notin nic'
    BY <1>2 DEF IInv, Apart
  <2>2. \A j \in recycled' .. Count(rx') - 1 : Entry(rx', j) \notin nic'
    BY <1>2, <1>3 DEF IInv, Apart
  <2>3. \A i \in 0 .. Count(fq') - 1, j \in recycled' .. Count(rx') - 1 :
          Entry(fq', i) # Entry(rx', j)
    BY <1>2, <1>3 DEF IInv, Apart
  <2> QED BY <2>1, <2>2, <2>3 DEF Apart
<1> QED BY <1>4, <1>5, <1>6, <1>7, <1>8 DEF IInv

\* A step that leaves the rings alone.
LEMMA StutterInv == IInv /\ UNCHANGED ringVars => IInv'
BY DEF IInv, ringVars, RingsTypeOK, Bounded, Conserved, FillDistinct, RxDistinct, Apart

\* No frame of the UMEM is ever in two places or none, and neither ring is
\* overfull: xsk_ctx_rx_release() need not look at the fill ring's consumer.
THEOREM FramesConserved == RingsSpec => [](IInv /\ umem \in [Frames -> Packets])
<1>1. IInv /\ [RingsNext]_ringVars => IInv'
  <2> SUFFICES ASSUME IInv, [RingsNext]_ringVars PROVE IInv'
    OBVIOUS
  <2>1. CASE Take
    BY <2>1, TakeInv
  <2>2. CASE \E p \in Packets : Deliver(p)
    BY <2>2, DeliverInv
  <2>3. CASE \E n \in 1 .. Count(rx) : Recycle(n)
    BY <2>3, RecycleInv
  <2>4. CASE AdvanceConsumer
    BY <2>4, AdvanceInv
  <2>5. CASE UNCHANGED ringVars
    BY <2>5, StutterInv
  <2> QED BY <2>1, <2>2, <2>3, <2>4, <2>5 DEF RingsNext
<1>2. RingsInit => umem \in [Frames -> Packets]
  BY DEF RingsInit
<1>3. umem \in [Frames -> Packets] /\ [RingsNext]_ringVars
        => (umem \in [Frames -> Packets])'
  BY DEF RingsNext, ringVars, Take, Deliver, Recycle, AdvanceConsumer
<1>4. RingsInit => IInv
  BY InitPopulated, PopulatedInv
<1> QED BY <1>1, <1>2, <1>3, <1>4, PTL DEF RingsSpec

-----------------------------------------------------------------------------
(* The pool of frames they implement.                                      *)

\* What a ring holds, entry by entry.
Holds(ring, mem, k, P) ==
  /\ Behind(ring, mem, k) \in Seq([frame : Frames, packet : P])
  /\ Len(Behind(ring, mem, k)) = Count(ring) - k
  /\ \A i \in 1 .. Count(ring) - k :
       Behind(ring, mem, k)[i] = [frame |-> Entry(ring, k + i - 1),
                                  packet |-> mem[Entry(ring, k + i - 1)]]

LEMMA BehindShape ==
  ASSUME NEW P, NEW ring \in Ring, NEW mem \in [Frames -> P], NEW k \in Nat,
         k <= Count(ring)
  PROVE  Holds(ring, mem, k, P)
<1> DEFINE s == Behind(ring, mem, k)
           m == Count(ring) - k
           T == [frame : Frames, packet : P]
           e(i) == [frame |-> Entry(ring, k + i - 1),
                    packet |-> mem[Entry(ring, k + i - 1)]]
<1>1. m \in Nat
  BY RingRange, ProducerAhead
<1>2. ASSUME NEW i \in 1 .. m
      PROVE  e(i) \in T
  <2>1. k + i - 1 \in Nat
    BY <1>1
  <2>2. Entry(ring, k + i - 1) \in Frames
    BY <2>1, EntryType
  <2> QED BY <2>2
<1>3. s = [i \in 1 .. m |-> e(i)]
  BY DEF Behind
<1> HIDE DEF s, m, e, T
<1>4. s \in [1 .. m -> T]
  BY <1>2, <1>3
<1>5. s \in Seq(T) /\ Len(s) = m
  BY <1>1, <1>4
<1>6. \A i \in 1 .. m : s[i] = e(i)
  BY <1>3
<1> QED BY <1>5, <1>6 DEF s, m, e, T, Holds

\* A ring with nothing behind its first entries.
LEMMA BehindEmpty ==
  ASSUME NEW ring, NEW mem, NEW k \in Int, Count(ring) = k
  PROVE  Behind(ring, mem, k) = <<>>
<1> DEFINE e == [i \in {} |-> LET f == Entry(ring, k + i - 1)
                              IN [frame |-> f, packet |-> mem[f]]]
<1>1. Count(ring) - k = 0 /\ 1 .. 0 = {}
  OBVIOUS
<1>2. Behind(ring, mem, k) = e
  BY <1>1 DEF Behind
<1>3. e \in [1 .. 0 -> {}]
  BY <1>1
<1>4. e \in Seq({}) /\ Len(e) = 0
  <2> HIDE DEF e
  <2> QED BY <1>3
<1> QED BY <1>2, <1>4

\* At first every frame is free.
LEMMA PopulatedPool == Populated => Received = <<>> /\ Free = Frames
<1> SUFFICES ASSUME Populated PROVE Received = <<>> /\ Free = Frames
  OBVIOUS
<1>1. /\ Count(fq) = NumFrames /\ Count(rx) = 0 /\ nic = {} /\ recycled = 0
      /\ \A i \in 0 .. NumFrames - 1 : Entry(fq, i) = i
  BY PopulatedRings DEF Populated
<1>2. Received = <<>>
  BY <1>1, BehindEmpty DEF Received
<1>3. Free = Frames
  BY <1>1 DEF Free, Filled, Frames
<1> QED BY <1>2, <1>3

\* Free frames are frames.
LEMMA FreeType == IInv => Free \subseteq Frames
<1> SUFFICES ASSUME IInv PROVE Filled \subseteq Frames /\ nic \subseteq Frames
  BY DEF Free
<1>1. \A i \in 0 .. Count(fq) - 1 : Entry(fq, i) \in Frames
  BY EntryType DEF IInv, RingsTypeOK
<1> QED BY <1>1 DEF Filled, IInv, RingsTypeOK

\* The driver's taking a frame is no step of the pool,
LEMMA TakePool == IInv /\ Take => UNCHANGED <<Received, Free>>
<1> SUFFICES ASSUME IInv, Take PROVE Received' = Received /\ Free' = Free
  OBVIOUS
<1> DEFINE F == Count(fq)
<1>1. /\ F \in Nat /\ F > 0 /\ Count(fq') = F - 1
      /\ \A i \in Nat : Entry(fq', i) = Entry(fq, i + 1)
      /\ nic' = nic \cup {Entry(fq, 0)}
      /\ UNCHANGED <<rx, umem, recycled>>
  BY TakeEntries, CountsNat DEF IInv, Take
<1>2. Received' = Received
  BY <1>1 DEF Received
<1> HIDE DEF F
<1>3. Filled' = {Entry(fq, i + 1) : i \in 0 .. F - 2}
  BY <1>1 DEF Filled
<1>4. Filled = {Entry(fq, i) : i \in 0 .. F - 1}
  BY DEF Filled, F
<1>5. Filled = {Entry(fq, 0)} \cup {Entry(fq, i + 1) : i \in 0 .. F - 2}
  <2>1. ASSUME NEW i \in 0 .. F - 1
        PROVE  i = 0 \/ (i - 1 \in 0 .. F - 2 /\ (i - 1) + 1 = i)
    BY <1>1
  <2>2. ASSUME NEW i \in 0 .. F - 2
        PROVE  i + 1 \in 0 .. F - 1
    BY <1>1
  <2>3. 0 \in 0 .. F - 1
    BY <1>1
  <2> QED BY <1>4, <2>1, <2>2, <2>3
<1>6. Free' = Free
  BY <1>1, <1>3, <1>5 DEF Free
<1> QED BY <1>2, <1>6

\* nor is the second store of a release.
LEMMA AdvancePool == IInv /\ AdvanceConsumer => UNCHANGED <<Received, Free>>
<1> SUFFICES ASSUME IInv, AdvanceConsumer PROVE Received' = Received /\ Free' = Free
  OBVIOUS
<1>1. /\ Count(rx') = Count(rx) - recycled /\ Count(rx) \in Nat /\ recycled \in Nat
      /\ \A i \in Nat : Entry(rx', i) = Entry(rx, recycled + i)
      /\ recycled' = 0 /\ UNCHANGED <<fq, nic, umem>>
  BY AdvanceEntries, CountsNat DEF IInv, AdvanceConsumer
<1>2. Count(rx') - recycled' = Count(rx) - recycled
  BY <1>1
<1>3. ASSUME NEW i \in 1 .. Count(rx) - recycled
      PROVE  Entry(rx', recycled' + i - 1) = Entry(rx, recycled + i - 1)
  <2>1. i - 1 \in Nat /\ recycled' + i - 1 = i - 1
        /\ recycled + (i - 1) = recycled + i - 1
    BY <1>1
  <2> QED BY <1>1, <2>1
<1>4. Received' = Received
  BY <1>1, <1>2, <1>3 DEF Received, Behind
<1> QED BY <1>1, <1>4 DEF Free, Filled

\* A packet is received in a frame that was free,
Receives(p) ==
  \E f \in Free : /\ Received' = Append(Received, [frame |-> f, packet |-> p])
                 /\ Free' = Free \ {f}

\* or the frames of the first n are free again.
Releases(n) ==
  /\ Received' = SubSeq(Received, n + 1, Len(Received))
  /\ Free' = Free \cup {Received[i].frame : i \in 1 .. n}

\* The received packets.
LEMMA ReceivedShape ==
  ASSUME IInv, NEW P, umem \in [Frames -> P]
  PROVE  /\ Received \in Seq([frame : Frames, packet : P])
         /\ Len(Received) = Count(rx) - recycled /\ Len(Received) \in Nat
         /\ \A i \in 1 .. Count(rx) - recycled :
              Received[i] = [frame |-> Entry(rx, recycled + i - 1),
                             packet |-> umem[Entry(rx, recycled + i - 1)]]
<1>1. /\ rx \in Ring /\ recycled \in Nat /\ recycled <= Count(rx)
      /\ Count(rx) \in Nat
  BY CountsNat DEF IInv, RingsTypeOK, Bounded
<1>2. Holds(rx, umem, recycled, P)
  BY <1>1, BehindShape, Zenon
<1> QED BY <1>1, <1>2 DEF Received, Holds

\* A delivery is a receipt,
LEMMA DeliverPool ==
  ASSUME IInv, NEW P, umem \in [Frames -> P], NEW p \in P, Deliver(p)
  PROVE  Receives(p)
<1> DEFINE m == Count(rx) - recycled
           S == [frame : Frames, packet : P]
<1>1. PICK f \in nic :
        /\ f \in Frames
        /\ umem' = [umem EXCEPT ![f] = p] /\ nic' = nic \ {f}
        /\ UNCHANGED <<fq, recycled>>
        /\ rx' \in Ring /\ Count(rx') = Count(rx) + 1
        /\ \A i \in 0 .. Count(rx) - 1 : Entry(rx', i) = Entry(rx, i)
        /\ Entry(rx', Count(rx)) = f
  BY DeliverFrame
<1> DEFINE last == [frame |-> f, packet |-> p]
<1>2. /\ Count(rx) \in Nat /\ recycled \in Nat /\ m \in Nat
      /\ Count(rx') - recycled' = m + 1
  BY <1>1, CountsNat DEF IInv, Bounded
<1>3. /\ Received \in Seq(S) /\ Len(Received) = m
      /\ \A i \in 1 .. m :
           Received[i] = [frame |-> Entry(rx, recycled + i - 1),
                          packet |-> umem[Entry(rx, recycled + i - 1)]]
  BY ReceivedShape
<1>4. /\ Received' \in Seq(S) /\ Len(Received') = m + 1
      /\ \A i \in 1 .. m + 1 :
           Received'[i] = [frame |-> Entry(rx', recycled + i - 1),
                           packet |-> umem'[Entry(rx', recycled + i - 1)]]
  <2>1. IInv'
    BY DeliverInv
  <2>2. /\ rx' \in Ring /\ umem' \in [Frames -> P] /\ recycled' \in Nat
        /\ recycled' <= Count(rx')
    BY <1>1, <1>2, <2>1 DEF IInv, RingsTypeOK, Bounded
  <2>3. /\ Received' \in Seq(S) /\ Len(Received') = Count(rx') - recycled'
        /\ \A i \in 1 .. Count(rx') - recycled' :
             Received'[i] = [frame |-> Entry(rx', recycled' + i - 1),
                             packet |-> umem'[Entry(rx', recycled' + i - 1)]]
    <3>1. Holds(rx', umem', recycled', P)
      BY <2>2, BehindShape, Zenon
    <3> QED BY <3>1 DEF Received, Holds
  <2> QED BY <1>1, <1>2, <2>3
<1>5. ASSUME NEW i \in 1 .. m
      PROVE  Received'[i] = Received[i]
  <2>1. /\ recycled + i - 1 \in recycled .. Count(rx) - 1
        /\ recycled + i - 1 \in 0 .. Count(rx) - 1 /\ i \in 1 .. m + 1
    BY <1>2
  <2>2. Entry(rx', recycled + i - 1) = Entry(rx, recycled + i - 1)
    BY <1>1, <2>1
  <2>3. Entry(rx, recycled + i - 1) # f
    BY <2>1 DEF IInv, Apart
  <2>4. Entry(rx, recycled + i - 1) \in Frames
    BY <2>1, EntryType DEF IInv, RingsTypeOK
  <2>5. umem'[Entry(rx, recycled + i - 1)] = umem[Entry(rx, recycled + i - 1)]
    BY <1>1, <2>3, <2>4 DEF IInv, RingsTypeOK
  <2> QED BY <1>3, <1>4, <2>1, <2>2, <2>5
<1>6. Received'[m + 1] = last
  <2>1. m + 1 \in 1 .. m + 1 /\ recycled + (m + 1) - 1 = Count(rx)
    BY <1>2
  <2>2. umem'[f] = p
    BY <1>1 DEF IInv, RingsTypeOK
  <2> QED BY <1>1, <1>4, <2>1, <2>2
<1>7. last \in S
  BY <1>1
<1>8. Received' = Append(Received, last)
  <2> HIDE DEF m, S, last
  <2>1. /\ Append(Received, last) \in Seq(S) /\ Len(Append(Received, last)) = m + 1
        /\ Append(Received, last)[m + 1] = last
        /\ \A i \in 1 .. m : Append(Received, last)[i] = Received[i]
    BY <1>2, <1>3, <1>7
  <2>2. \A i \in 1 .. m + 1 : Received'[i] = Append(Received, last)[i]
    BY <1>2, <1>5, <1>6, <2>1
  <2> QED BY <1>2, <1>4, <2>1, <2>2
<1>9. Filled' = Filled /\ f \notin Filled
  BY <1>1 DEF Filled, IInv, Apart
<1>10. Free' = Free \ {f} /\ f \in Free
  BY <1>1, <1>9 DEF Free
<1> QED BY <1>8, <1>10 DEF Receives

\* What is behind the first n of a sequence.
LEMMA SubSeqShape ==
  ASSUME NEW P, NEW s \in Seq(P), NEW n \in 0 .. Len(s)
  PROVE  /\ Len(SubSeq(s, n + 1, Len(s))) = Len(s) - n
         /\ \A i \in 1 .. Len(s) - n : SubSeq(s, n + 1, Len(s))[i] = s[n + i]
OBVIOUS

\* and the first store of a release the release.
LEMMA RecyclePool ==
  ASSUME IInv, NEW P, umem \in [Frames -> P],
         NEW n \in 1 .. Count(rx), Recycle(n)
  PROVE  Releases(n) /\ n \in 1 .. Len(Received)
<1> DEFINE R == Count(rx)
           F == Count(fq)
           S == [frame : Frames, packet : P]
<1>1. /\ UNCHANGED <<rx, nic, umem>> /\ recycled = 0 /\ recycled' = n
      /\ Count(fq') = F + n
      /\ \A i \in 0 .. F - 1 : Entry(fq', i) = Entry(fq, i)
      /\ \A i \in 0 .. n - 1 : Entry(fq', F + i) = Entry(rx, i)
  BY RecycleFrames
<1>2. R \in Nat /\ F \in Nat /\ n \in 1 .. R
  BY CountsNat DEF IInv
<1>3. /\ Received \in Seq(S) /\ Len(Received) = R
      /\ \A i \in 1 .. R :
           Received[i] = [frame |-> Entry(rx, i - 1), packet |-> umem[Entry(rx, i - 1)]]
  <2>1. R - recycled = R /\ \A i \in 1 .. R : recycled + i - 1 = i - 1
    BY <1>1, <1>2
  <2>2. /\ Received \in Seq(S) /\ Len(Received) = R - recycled
        /\ \A i \in 1 .. R - recycled :
             Received[i] = [frame |-> Entry(rx, recycled + i - 1),
                            packet |-> umem[Entry(rx, recycled + i - 1)]]
    <3>1. Holds(rx, umem, recycled, P)
      <4>1. /\ rx \in Ring /\ umem \in [Frames -> P] /\ recycled \in Nat
            /\ recycled <= Count(rx)
        BY <1>1, <1>2 DEF IInv, RingsTypeOK
      <4> QED BY <4>1, BehindShape, Zenon
    <3> QED BY <3>1 DEF Received, Holds
  <2> QED BY <2>1, <2>2
<1>4. /\ Received' \in Seq(S) /\ Len(Received') = R - n
      /\ \A i \in 1 .. R - n :
           Received'[i] = [frame |-> Entry(rx, n + i - 1),
                           packet |-> umem[Entry(rx, n + i - 1)]]
  <2>1. IInv'
    BY RecycleInv
  <2>2. /\ rx' \in Ring /\ umem' \in [Frames -> P] /\ recycled' \in Nat
        /\ recycled' <= Count(rx') /\ Count(rx') = R
    BY <1>1, <1>2, <2>1 DEF IInv, RingsTypeOK, Bounded
  <2>3. /\ Received' \in Seq(S) /\ Len(Received') = Count(rx') - recycled'
        /\ \A i \in 1 .. Count(rx') - recycled' :
             Received'[i] = [frame |-> Entry(rx', recycled' + i - 1),
                             packet |-> umem'[Entry(rx', recycled' + i - 1)]]
    <3>1. Holds(rx', umem', recycled', P)
      BY <2>2, BehindShape, Zenon
    <3> QED BY <3>1 DEF Received, Holds
  <2> QED BY <1>1, <2>2, <2>3
<1>5. Received' = SubSeq(Received, n + 1, Len(Received))
  <2> HIDE DEF R, F, S
  <2> DEFINE s == SubSeq(Received, n + 1, R)
  <2>1. /\ s \in Seq(S) /\ Len(s) = R - n
        /\ \A i \in 1 .. R - n : s[i] = Received[n + i]
    <3>1. n \in 0 .. Len(Received) /\ Received \in Seq(S) /\ Len(Received) = R
      BY <1>2, <1>3
    <3>2. /\ Len(s) = R - n
          /\ \A i \in 1 .. R - n : s[i] = Received[n + i]
      BY <3>1, SubSeqShape
    <3>3. s \in Seq(S)
      BY <1>2, <3>1
    <3> QED BY <3>2, <3>3
  <2>2. ASSUME NEW i \in 1 .. R - n
        PROVE  Received'[i] = s[i]
    <3>1. n + i \in 1 .. R
      BY <1>2
    <3>2. s[i] = Received[n + i]
      BY <2>1
    <3>3. (n + i) - 1 = n + i - 1
      BY <1>2
    <3>4. Received[n + i] = [frame |-> Entry(rx, n + i - 1),
                             packet |-> umem[Entry(rx, n + i - 1)]]
      BY <1>3, <3>1, <3>3
    <3>5. Received'[i] = [frame |-> Entry(rx, n + i - 1),
                          packet |-> umem[Entry(rx, n + i - 1)]]
      BY <1>4
    <3> QED BY <3>2, <3>4, <3>5
  <2> HIDE DEF s
  <2>3. Received' = s
    BY <1>2, <1>4, <2>1, <2>2
  <2> QED BY <1>3, <2>3 DEF s
<1>6. Filled' = Filled \cup {Entry(rx, i) : i \in 0 .. n - 1}
  <2> HIDE DEF R, F
  <2>1. Filled' = {Entry(fq', i) : i \in 0 .. F + n - 1}
    <3>1. Filled' = {Entry(fq', i) : i \in 0 .. Count(fq') - 1}
      BY DEF Filled
    <3>2. Count(fq') = F + n
      BY <1>1
    <3>3. Count(fq') - 1 = F + n - 1
      BY <1>2, <3>2
    <3> QED BY <3>1, <3>3, Zenon
  <2>2. Filled = {Entry(fq, i) : i \in 0 .. F - 1}
    BY DEF Filled, F
  <2>3. ASSUME NEW i \in 0 .. F + n - 1
        PROVE  \/ i \in 0 .. F - 1 /\ Entry(fq', i) = Entry(fq, i)
               \/ i - F \in 0 .. n - 1 /\ Entry(fq', i) = Entry(rx, i - F)
    <3>1. CASE i < F
      <4>1. i \in 0 .. F - 1
        BY <1>2, <3>1
      <4> QED BY <1>1, <4>1
    <3>2. CASE ~(i < F)
      <4>1. i - F \in 0 .. n - 1 /\ F + (i - F) = i
        BY <1>2, <3>2
      <4>2. Entry(fq', F + (i - F)) = Entry(rx, i - F)
        BY <1>1, <4>1
      <4> QED BY <4>1, <4>2
    <3> QED BY <3>1, <3>2
  <2>4. Filled' \subseteq Filled \cup {Entry(rx, i) : i \in 0 .. n - 1}
    BY <2>1, <2>2, <2>3
  <2>5. ASSUME NEW i \in 0 .. F - 1
        PROVE  Entry(fq, i) \in Filled'
    <3>1. i \in 0 .. F + n - 1
      BY <1>2
    <3> QED BY <1>1, <2>1, <3>1
  <2>6. ASSUME NEW i \in 0 .. n - 1
        PROVE  Entry(rx, i) \in Filled'
    <3>1. F + i \in 0 .. F + n - 1
      BY <1>2
    <3> QED BY <1>1, <2>1, <3>1
  <2> QED BY <2>2, <2>4, <2>5, <2>6
<1>7. {Received[i].frame : i \in 1 .. n} = {Entry(rx, i) : i \in 0 .. n - 1}
  <2> HIDE DEF R
  <2>1. ASSUME NEW i \in 1 .. n
        PROVE  i - 1 \in 0 .. n - 1 /\ Received[i].frame = Entry(rx, i - 1)
    BY <1>2, <1>3
  <2>2. ASSUME NEW i \in 0 .. n - 1
        PROVE  i + 1 \in 1 .. n /\ Received[i + 1].frame = Entry(rx, i)
    <3>1. i + 1 \in 1 .. n /\ (i + 1) - 1 = i /\ i + 1 \in 1 .. R
      BY <1>2
    <3>2. Received[i + 1].frame = Entry(rx, (i + 1) - 1)
      BY <1>3, <3>1
    <3> QED BY <3>1, <3>2
  <2> QED BY <2>1, <2>2
<1>8. Free' = Free \cup {Received[i].frame : i \in 1 .. n}
  BY <1>1, <1>6, <1>7 DEF Free
<1>9. n \in 1 .. Len(Received)
  BY <1>2, <1>3
<1> QED BY <1>5, <1>8, <1>9 DEF Releases

\* A receipt, as the pool of frames states it.
LEMMA ReceiveStep ==
  ASSUME NEW P, NEW p \in P, IInv, umem \in [Frames -> P], Receives(p)
  PROVE  /\ Len(Received') = Len(Received) + 1
         /\ LET last == Received'[Len(Received')]
            IN /\ last \in [frame : Free, packet : P]
               /\ Received' = Append(Received, last)
               /\ Free' = Free \ {last.frame}
<1>1. PICK f \in Free : /\ Received' = Append(Received, [frame |-> f, packet |-> p])
                       /\ Free' = Free \ {f}
  BY DEF Receives
<1> DEFINE r == [frame |-> f, packet |-> p]
<1>2. /\ Received \in Seq([frame : Frames, packet : P]) /\ Len(Received) \in Nat
      /\ Free \subseteq Frames
  BY ReceivedShape, FreeType
<1>3. r \in [frame : Free, packet : P] /\ r \in [frame : Frames, packet : P]
      /\ r.frame = f
  BY <1>2
<1>4. Len(Received') = Len(Received) + 1 /\ Received'[Len(Received')] = r
  <2> HIDE DEF r
  <2> QED BY <1>1, <1>2, <1>3 DEF r
<1> QED BY <1>1, <1>3, <1>4

\* The rings of xsk-util.c are a pool of frames: no packet that has reached
\* the receive ring is lost, repeated, overtaken or overwritten before
\* xsk_ctx_rx_release() gives its frame back, and that frame is free again.
THEOREM RingsImplementPool == RingsSpec => RingPool!Spec
<1> DEFINE Inv == IInv /\ umem \in [Frames -> Packets]
<1>1. Inv /\ [RingsNext]_ringVars => [RingPool!Next]_<<Received, Free>>
  <2> SUFFICES ASSUME Inv, [RingsNext]_ringVars
               PROVE  RingPool!Next \/ UNCHANGED <<Received, Free>>
    OBVIOUS
  <2>1. CASE Take
    BY <2>1, TakePool
  <2>2. ASSUME NEW p \in Packets, Deliver(p)
        PROVE  RingPool!Receive
    <3>1. Receives(p)
      BY <2>2, DeliverPool
    <3> QED BY <3>1, ReceiveStep DEF RingPool!Receive
  <2>3. ASSUME NEW n \in 1 .. Count(rx), Recycle(n)
        PROVE  RingPool!Release
    <3>1. Releases(n) /\ n \in 1 .. Len(Received)
      BY <2>3, RecyclePool
    <3> QED BY <3>1 DEF RingPool!Release, Releases
  <2>4. CASE AdvanceConsumer
    BY <2>4, AdvancePool
  <2>5. CASE UNCHANGED ringVars
    BY <2>5 DEF ringVars, Received, Free, Filled
  <2> QED BY <2>1, <2>2, <2>3, <2>4, <2>5 DEF RingsNext, RingPool!Next
<1>2. RingsInit => RingPool!Init
  BY InitPopulated, PopulatedPool DEF RingPool!Init
<1> QED BY <1>1, <1>2, FramesConserved, PTL DEF RingsSpec, RingPool!Spec

-----------------------------------------------------------------------------
(* Bring-up and tear-down.                                                 *)

Steps == {CreateOrder[i] : i \in DOMAIN CreateOrder}

\* What xsk_ctx_create() has done up to its n-th step.
Done(n) == {CreateOrder[i] : i \in 1 .. n}

\* What the context has, by where it is.
HeldInv ==
  /\ context \in {"none", "create", "open", "destroy"}
  /\ held \subseteq Steps
  /\ context = "none" => held = {}
  /\ context = "create" => \E n \in 0 .. 9 : held = Done(n)
  /\ context = "open" => held = Steps
  \* A descriptor goes with what it has been used for,
  /\ held \cap OfSocket # {} => "socket" \in held
  /\ "entry" \in held => "bound" \in held
  \* and after it the memory.
  /\ "bound" \in held => {"umem", "fill", "rx", "socket"} \subseteq held

\* A program that is not on record was left by a call that failed.
LostInv ==
  /\ xdp \in BOOLEAN
  /\ lost \subseteq {"answer", "detach", "killed"}
  /\ xdp /\ "link" \notin held => lost # {}

ContextInv == HeldInv /\ LostInv

\* The steps of xsk_ctx_create() by their numbers,
LEMMA CreateSteps ==
  /\ DOMAIN CreateOrder = 1 .. 10
  /\ CreateOrder[1] = "umem" /\ CreateOrder[2] = "map" /\ CreateOrder[3] = "prog"
  /\ CreateOrder[4] = "link" /\ CreateOrder[5] = "socket"
  /\ CreateOrder[6] = "registered" /\ CreateOrder[7] = "fill"
  /\ CreateOrder[8] = "rx" /\ CreateOrder[9] = "bound" /\ CreateOrder[10] = "entry"
BY DEF CreateOrder

\* and those of xsk_ctx_destroy().
LEMMA DestroySteps ==
  /\ DOMAIN DestroyOrder = 1 .. 7
  /\ DestroyOrder[1] = "link" /\ DestroyOrder[2] = "prog" /\ DestroyOrder[3] = "map"
  /\ DestroyOrder[4] = "socket" /\ DestroyOrder[5] = "fill" /\ DestroyOrder[6] = "rx"
  /\ DestroyOrder[7] = "umem"
BY DEF DestroyOrder

LEMMA StepNames ==
  Steps = {"umem", "map", "prog", "link", "socket", "registered", "fill", "rx",
           "bound", "entry"}
<1>1. \A i \in 1 .. 10 : i = 1 \/ i = 2 \/ i = 3 \/ i = 4 \/ i = 5 \/ i = 6 \/ i = 7
                          \/ i = 8 \/ i = 9 \/ i = 10
  OBVIOUS
<1> QED BY <1>1, CreateSteps DEF Steps

\* What CHOOSE finds.
LEMMA FirstIs ==
  ASSUME NEW steps, NEW set, DOMAIN steps \subseteq Nat,
         NEW k \in DOMAIN steps, steps[k] \in set, 
         \A j \in 1 .. k - 1 : steps[j] \notin set, 0 \notin DOMAIN steps
  PROVE  First(steps, set) = steps[k]
<1> DEFINE P(i) == steps[i] \in set /\ \A j \in 1 .. i - 1 : steps[j] \notin set
<1>1. ASSUME NEW i \in DOMAIN steps, P(i)
      PROVE  i = k
  <2>1. i \in Nat \ {0} /\ k \in Nat \ {0}
    OBVIOUS
  <2>2. ~(i < k)
    <3>1. i < k => i \in 1 .. k - 1
      BY <2>1
    <3> QED BY <1>1, <3>1
  <2>3. ~(k < i)
    <3>1. k < i => k \in 1 .. i - 1
      BY <2>1
    <3> QED BY <1>1, <3>1
  <2> QED BY <2>1, <2>2, <2>3
<1>2. P(k)
  OBVIOUS
<1> DEFINE c == CHOOSE i \in DOMAIN steps : P(i)
<1>3. c \in DOMAIN steps /\ P(c)
  <2> HIDE DEF P
  <2> QED BY <1>2
<1>4. c = k
  <2> HIDE DEF c, P
  <2> QED BY <1>1, <1>3
<1> QED BY <1>4 DEF First

\* The next step of xsk_ctx_create().
LEMMA NextStep ==
  ASSUME NEW n \in 0 .. 9, held = Done(n)
  PROVE  First(CreateOrder, Missing) = CreateOrder[n + 1]
<1>1. n + 1 \in 1 .. 10
  OBVIOUS
<1>2. \A i, j \in 1 .. 10 : CreateOrder[i] = CreateOrder[j] => i = j
  <2>1. \A i \in 1 .. 10 : i = 1 \/ i = 2 \/ i = 3 \/ i = 4 \/ i = 5 \/ i = 6
                            \/ i = 7 \/ i = 8 \/ i = 9 \/ i = 10
    OBVIOUS
  <2> QED BY <2>1, CreateSteps
<1>3. CreateOrder[n + 1] \in Missing
  <2>1. \A i \in 1 .. n : i \in 1 .. 10 /\ i # n + 1
    OBVIOUS
  <2> QED BY <1>1, <1>2, <2>1, CreateSteps DEF Missing, Done
<1>4. \A j \in 1 .. (n + 1) - 1 : CreateOrder[j] \notin Missing
  <2>1. (n + 1) - 1 = n
    OBVIOUS
  <2> QED BY <2>1 DEF Missing, Done
<1>5. DOMAIN CreateOrder \subseteq Nat /\ 0 \notin DOMAIN CreateOrder
  BY CreateSteps
<1> QED BY <1>1, <1>3, <1>4, <1>5, CreateSteps, FirstIs

\* The next step of xsk_ctx_destroy(): the memory comes after the socket.
LEMMA NextRelease ==
  ASSUME held \subseteq Steps, held # {}, held \cap OfSocket # {} => "socket" \in held
  PROVE  LET step == First(DestroyOrder, held)
         IN /\ step \in held /\ step \notin {"registered", "bound", "entry"}
            /\ "socket" \in held => step \notin {"fill", "rx", "umem"}
<1> DEFINE Rank(k) == /\ DestroyOrder[k] \in held
                      /\ \A j \in 1 .. k - 1 : DestroyOrder[j] \notin held
<1>1. ASSUME NEW k \in 1 .. 7, Rank(k)
      PROVE  First(DestroyOrder, held) = DestroyOrder[k]
  <2>1. DOMAIN DestroyOrder = 1 .. 7 /\ 0 \notin 1 .. 7 /\ 1 .. 7 \subseteq Nat
    BY DestroySteps
  <2> QED BY <1>1, <2>1, FirstIs
<1>2. \E i \in 1 .. 7 : DestroyOrder[i] \in held
  <2> DEFINE S == {"link", "prog", "map", "socket", "fill", "rx", "umem"}
  <2>1. \E s \in S : s \in held
    <3>1. PICK s \in held : TRUE
      OBVIOUS
    <3>2. s \in S \/ s \in OfSocket
      BY <3>1, StepNames DEF OfSocket
    <3> QED BY <3>1, <3>2
  <2>2. ASSUME NEW s \in S
        PROVE  \E i \in 1 .. 7 : DestroyOrder[i] = s
    BY DestroySteps
  <2> QED BY <2>1, <2>2
<1>3. \E k \in 1 .. 7 : Rank(k)
  <2>1. /\ 1 - 1 = 0 /\ 2 - 1 = 1 /\ 3 - 1 = 2 /\ 4 - 1 = 3 /\ 5 - 1 = 4 /\ 6 - 1 = 5
        /\ 7 - 1 = 6
    OBVIOUS
  <2>2. \A i \in 1 .. 7 : i = 1 \/ i = 2 \/ i = 3 \/ i = 4 \/ i = 5 \/ i = 6 \/ i = 7
    OBVIOUS
  <2> QED BY <1>2, <2>2
<1>4. PICK k \in 1 .. 7 : Rank(k)
  BY <1>3
<1>5. "socket" \in held => k <= 4
  <2>1. k > 4 => 4 \in 1 .. k - 1
    OBVIOUS
  <2> QED BY <1>4, <2>1, DestroySteps
<1>6. k = 1 \/ k = 2 \/ k = 3 \/ k = 4 \/ k = 5 \/ k = 6 \/ k = 7
  OBVIOUS
<1> QED BY <1>1, <1>4, <1>5, <1>6, DestroySteps

\* What has been done up to a step is in the order the code does it in.
LEMMA DoneSteps ==
  ASSUME NEW n \in 0 .. 10
  PROVE  /\ Done(n) \subseteq Steps
         /\ Done(n) \cap OfSocket # {} => "socket" \in Done(n)
         /\ "entry" \in Done(n) => "bound" \in Done(n)
         /\ "bound" \in Done(n) => {"umem", "fill", "rx", "socket"} \subseteq Done(n)
         /\ "rx" \in Done(n) => {"umem", "fill", "socket"} \subseteq Done(n)
         /\ "entry" \in Done(n) <=> n = 10
         /\ "rx" \in Done(n) <=> n >= 8
         /\ "socket" \in Done(n) <=> n >= 5
<1>1. \A i \in 1 .. n : i = 1 \/ i = 2 \/ i = 3 \/ i = 4 \/ i = 5 \/ i = 6 \/ i = 7
                         \/ i = 8 \/ i = 9 \/ i = 10
  OBVIOUS
<1>2. \A m \in 1 .. 10 : CreateOrder[m] \in Done(n) <=> m <= n
  <2>1. \A i, j \in 1 .. 10 : CreateOrder[i] = CreateOrder[j] => i = j
    <3>1. \A i \in 1 .. 10 : i = 1 \/ i = 2 \/ i = 3 \/ i = 4 \/ i = 5 \/ i = 6
                              \/ i = 7 \/ i = 8 \/ i = 9 \/ i = 10
      OBVIOUS
    <3> QED BY <3>1, CreateSteps
  <2> QED BY <2>1 DEF Done
<1>3. /\ "socket" \in Done(n) <=> 5 <= n
      /\ "registered" \in Done(n) <=> 6 <= n
      /\ "rx" \in Done(n) <=> 8 <= n
      /\ "bound" \in Done(n) <=> 9 <= n
      /\ "entry" \in Done(n) <=> 10 <= n
      /\ "umem" \in Done(n) <=> 1 <= n
      /\ "fill" \in Done(n) <=> 7 <= n
  BY <1>2, CreateSteps
<1>4. Done(n) \subseteq Steps
  <2>1. 1 .. n \subseteq DOMAIN CreateOrder
    BY CreateSteps
  <2> QED BY <2>1 DEF Done, Steps
<1> QED BY <1>3, <1>4 DEF OfSocket

\* One more of them.
LEMMA DoneNext ==
  ASSUME NEW n \in 0 .. 9
  PROVE  Done(n) \cup {CreateOrder[n + 1]} = Done(n + 1)
<1>1. 1 .. n + 1 = 1 .. n \cup {n + 1}
  OBVIOUS
<1> QED BY <1>1 DEF Done

\* What xsk_ctx_create() does in its n-th step.
LEMMA CreateMoves ==
  ASSUME ContextInv, Create
  PROVE  \E n \in 0 .. 9 :
           /\ held = Done(n) /\ held' = Done(n + 1)
           /\ xdp' = (xdp \/ n = 3)
           /\ context' = IF n = 9 THEN "open" ELSE "create"
           /\ IF n = 7 THEN RingsPopulated ELSE UNCHANGED ringVars
           /\ UNCHANGED lost
<1>1. PICK n \in 0 .. 9 : held = Done(n)
  BY DEF ContextInv, HeldInv, Create
<1>2. First(CreateOrder, Missing) = CreateOrder[n + 1]
  BY <1>1, NextStep
<1>3. /\ CreateOrder[n + 1] = "link" <=> n = 3
      /\ CreateOrder[n + 1] = "entry" <=> n = 9
      /\ CreateOrder[n + 1] = "rx" <=> n = 7
  <2>1. n = 0 \/ n = 1 \/ n = 2 \/ n = 3 \/ n = 4 \/ n = 5 \/ n = 6 \/ n = 7 \/ n = 8
         \/ n = 9
    OBVIOUS
  <2> QED BY <2>1, CreateSteps
<1> QED BY <1>1, <1>2, <1>3, DoneNext DEF Create

\* The invariant of the context under each of its steps.
LEMMA CreateContext == ContextInv /\ Create => ContextInv'
<1> SUFFICES ASSUME ContextInv, Create PROVE ContextInv'
  OBVIOUS
<1>1. PICK n \in 0 .. 9 :
        /\ held = Done(n) /\ held' = Done(n + 1)
        /\ xdp' = (xdp \/ n = 3)
        /\ context' = IF n = 9 THEN "open" ELSE "create"
        /\ UNCHANGED lost
  BY CreateMoves
<1>2. n + 1 \in 0 .. 10 /\ (n # 9 => n + 1 \in 0 .. 9)
  OBVIOUS
<1>3. Done(10) = Steps
  BY CreateSteps DEF Done, Steps
<1>4. HeldInv'
  BY <1>1, <1>2, <1>3, DoneSteps DEF HeldInv
<1>5. LostInv'
  <2>1. "link" \in held => "link" \in held'
    BY <1>1, <1>2, DoneNext
  <2>2. n = 3 => "link" \in held'
    BY <1>1, CreateSteps DEF Done
  <2> QED BY <1>1, <2>1, <2>2 DEF ContextInv, LostInv
<1> QED BY <1>4, <1>5 DEF ContextInv

LEMMA DestroyMoves ==
  ASSUME ContextInv, Destroy
  PROVE  /\ context = "destroy" /\ context' = context
         /\ \/ /\ "socket" \in held /\ held' = held \ OfSocket
               /\ RingsEmpty
            \/ /\ UNCHANGED ringVars
               /\ \E step \in {"link", "prog", "map"} : held' = held \ {step}
            \/ /\ UNCHANGED ringVars
               /\ "socket" \notin held
               /\ \E step \in {"fill", "rx", "umem"} : held' = held \ {step}
<1> DEFINE step == First(DestroyOrder, held)
<1>1. held \subseteq Steps /\ held # {}
      /\ (held \cap OfSocket # {} => "socket" \in held)
  BY DEF ContextInv, HeldInv, Destroy
<1>2. /\ step \in held /\ step \notin {"registered", "bound", "entry"}
      /\ "socket" \in held => step \notin {"fill", "rx", "umem"}
  BY <1>1, NextRelease
<1>3. /\ held' = held \ (IF step = "socket" THEN OfSocket ELSE {step})
      /\ IF step = "socket" THEN RingsEmpty ELSE UNCHANGED ringVars
      /\ context = "destroy" /\ context' = context
  BY DEF Destroy
<1> HIDE DEF step
<1>4. step \in {"link", "prog", "map", "socket", "fill", "rx", "umem"}
  BY <1>1, <1>2, StepNames
<1> QED BY <1>2, <1>3, <1>4

LEMMA DestroyContext == ContextInv /\ Destroy => ContextInv'
<1> SUFFICES ASSUME ContextInv, Destroy PROVE ContextInv'
  OBVIOUS
<1>1. HeldInv'
  BY DestroyMoves, StepNames DEF ContextInv, HeldInv, OfSocket
<1>2. LostInv'
  <2> DEFINE step == First(DestroyOrder, held)
  <2>1. held' = held \ (IF step = "socket" THEN OfSocket ELSE {step})
    BY DEF Destroy
  <2>2. \/ /\ xdp' = (xdp /\ ~(step = "link"))
           /\ UNCHANGED lost
        \/ /\ step = "link"
           /\ lost' = lost \cup {"detach"}
           /\ UNCHANGED xdp
    BY DEF Destroy, Detaches
  <2> HIDE DEF step
  <2>3. CASE step = "link"
    BY <2>1, <2>2, <2>3 DEF ContextInv, LostInv
  <2>4. CASE step # "link"
    <3>1. "link" \in held => "link" \in held'
      BY <2>1, <2>4 DEF OfSocket
    <3> QED BY <2>2, <2>4, <3>1 DEF ContextInv, LostInv
  <2> QED BY <2>3, <2>4
<1> QED BY <1>1, <1>2 DEF ContextInv

LEMMA OtherContext ==
  ASSUME ContextInv,
         BeginCreate \/ CreateFails \/ AnswerLost \/ BeginDestroy \/ Destroyed \/ Die
           \/ UNCHANGED contextVars
  PROVE  ContextInv'
<1>1. CASE BeginCreate
  <2>1. Done(0) = {}
    BY DEF Done
  <2> QED BY <1>1, <2>1 DEF BeginCreate, ContextInv, HeldInv, LostInv
<1>2. CASE CreateFails
  BY <1>2 DEF CreateFails, ContextInv, HeldInv, LostInv
<1>3. CASE AnswerLost
  BY <1>3 DEF AnswerLost, ContextInv, HeldInv, LostInv
<1>4. CASE BeginDestroy
  BY <1>4 DEF BeginDestroy, ContextInv, HeldInv, LostInv
<1>5. CASE Destroyed
  BY <1>5 DEF Destroyed, ContextInv, HeldInv, LostInv
<1>6. CASE Die
  BY <1>6 DEF Die, ContextInv, HeldInv, LostInv, OfSocket
<1>7. CASE UNCHANGED contextVars
  BY <1>7 DEF contextVars, ContextInv, HeldInv, LostInv
<1> QED BY <1>1, <1>2, <1>3, <1>4, <1>5, <1>6, <1>7

-----------------------------------------------------------------------------
(* The types of what is sent.                                              *)

StreamTyped ==
  /\ now \in Nat /\ captured \in 0 .. MaxPdus /\ faults \in 0 .. MaxFaults
  /\ net \in Seq(PacketType) /\ socket \in Seq(PacketType)
  /\ umem \in [Frames -> PacketType]

\* The constants are numbers.
LEMMA Numbers ==
  /\ StartTime \in Nat /\ Offset \in Nat /\ TransitTime \in Nat /\ MaxLate \in Nat
  /\ Delay \in Nat /\ MaxFaults \in Nat /\ MaxPdus \in Nat /\ Tolerance \in Nat
  /\ Buffer \in Nat /\ PduFrames \in Nat \ {0} /\ Wrap \in Nat \ {0}
  /\ Buffer > PduFrames /\ Threshold \in 1 .. Buffer
BY PlayoutAssumption, ListenerAssumption, PcmAssumption, WrapAssumption

\* A packet is one.
LEMMA PduType ==
  ASSUME now \in Nat, NEW odd \in {StreamOdd, "length"} \cup StrayOdds,
         NEW due \in Nat
  PROVE  Pdu(odd, due) \in PacketType
<1>1. now + Offset \in Nat
  BY Numbers
<1>2. (now + Offset) % Wrap \in 0 .. Wrap - 1
  BY <1>1, Numbers, DivMod
<1> QED BY <1>1, <1>2 DEF Pdu, PacketType, ToAvtpTime

\* The first packet of the network or of a socket, and what is behind it.
LEMMA HeadTail ==
  ASSUME NEW P, NEW s \in Seq(P), s # <<>>
  PROVE  Head(s) \in P /\ Tail(s) \in Seq(P) /\ Len(s) \in Nat \ {0}
OBVIOUS

LEMMA InitTyped == Init => StreamTyped
<1> SUFFICES ASSUME Init PROVE StreamTyped
  OBVIOUS
<1>1. now \in Nat /\ captured \in 0 .. MaxPdus /\ faults \in 0 .. MaxFaults
  BY Numbers DEF Init
<1>2. net \in Seq(PacketType) /\ socket \in Seq(PacketType)
  BY DEF Init, ListenerInit
<1>3. Pdu("length", now) \in PacketType
  BY <1>1, PduType
<1>4. umem \in [Frames -> PacketType]
  BY <1>3 DEF Init
<1> QED BY <1>1, <1>2, <1>4 DEF StreamTyped

\* The stores of the rings leave the packets alone but for the delivered one.
LEMMA TypedStep == StreamTyped /\ [Next]_vars => StreamTyped'
<1> SUFFICES ASSUME StreamTyped, [Next]_vars PROVE StreamTyped'
  OBVIOUS
<1> USE DEF StreamTyped, streamVars, listenerVars, ringVars
<1>1. CASE UNCHANGED vars
  BY <1>1 DEF vars
<1>2. CASE (Bring \/ TearDown) /\ UNCHANGED <<listenerVars, streamVars, missing, cut>>
  <2>1. UNCHANGED umem
    BY <1>2 DEF Bring, TearDown, Create, CreateFails, AnswerLost, Destroy, Destroyed,
         RingsPopulated, RingsEmpty
  <2> QED BY <1>2, <2>1
<1>3. CASE Setup /\ UNCHANGED <<streamVars, missing, cut>>
  BY <1>3 DEF Setup, Steer, NoQueue, Opened, NotOpened, OpenSocket, BeginCreate
<1>4. CASE /\ PollRings \/ ReleaseBatch \/ ReleaseRx \/ Finish \/ Signal \/ EarlySignal
           /\ UNCHANGED <<streamVars, missing, cut>>
  <2>1. CASE PollRings \/ ReleaseBatch \/ ReleaseRx \/ Signal
    BY <1>4, <2>1 DEF PollRings, ReleaseBatch, ReleaseRx, Signal, Recycle, AdvanceConsumer
  <2>2. CASE Finish
    BY <1>4, <2>2 DEF Finish
  <2>3. CASE EarlySignal
    BY <1>4, <2>3 DEF EarlySignal, Die, RingsEmpty
  <2> QED BY <1>4, <2>1, <2>2, <2>3
<1>5. CASE LeaveLoop /\ UNCHANGED streamVars
  BY <1>5 DEF LeaveLoop, BeginDestroy
<1>6. CASE Process /\ UNCHANGED streamVars
  <2>1. CASE ProcessNext(now)
    BY <1>6, <2>1 DEF ProcessNext
  <2>2. CASE ReceiveDatagram(now)
    BY <1>6, <2>2, HeadTail DEF ReceiveDatagram
  <2> QED BY <1>6, <2>1, <2>2 DEF Process
<1>7. CASE Tick
  BY <1>7 DEF Tick
<1>8. CASE Send
  <2>1. now + TransitTime + MaxLate \in Nat
    BY Numbers
  <2>2. Pdu(StreamOdd, now + TransitTime + MaxLate) \in PacketType
    BY <2>1, PduType
  <2>3. captured' \in 0 .. MaxPdus
    BY <1>8, Numbers DEF Send
  <2> QED BY <1>8, <2>2, <2>3 DEF Send
<1>9. CASE Skip
  BY <1>9, Numbers DEF Skip, Fault
<1>10. CASE Lose
  <2>1. faults' \in 0 .. MaxFaults
    BY <1>10, Numbers DEF Lose, Fault
  <2> QED BY <1>10, <2>1, HeadTail DEF Lose
<1>11. CASE Hold
  <2>1. faults' \in 0 .. MaxFaults
    <3>1. faults < MaxFaults /\ faults' = faults + 1
      BY <1>11 DEF Hold, Fault
    <3> QED BY <3>1, Numbers
  <2>2. \A i \in 1 .. Len(net) :
          net[i] \in PacketType /\ [net[i] EXCEPT !.due = @ + Delay] \in PacketType
    <3>1. \A i \in 1 .. Len(net) : net[i] \in PacketType
      OBVIOUS
    <3>2. ASSUME NEW p \in PacketType
          PROVE  [p EXCEPT !.due = @ + Delay] \in PacketType
      <4>1. p.due + Delay \in Nat
        BY Numbers DEF PacketType
      <4> QED BY <4>1 DEF PacketType
    <3> QED BY <3>1, <3>2
  <2>3. net' = [i \in 1 .. Len(net) |-> [net[i] EXCEPT !.due = @ + Delay]]
    BY <1>11 DEF Hold
  <2>4. net' \in Seq(PacketType)
    BY <2>2, <2>3
  <2> QED BY <1>11, <2>1, <2>4 DEF Hold
<1>12. CASE \E odd \in StrayOdds : Stray(odd)
  <2>1. PICK odd \in StrayOdds : Stray(odd)
    BY <1>12
  <2>2. now + TransitTime + MaxLate \in Nat
    BY Numbers
  <2>3. Pdu(odd, now + TransitTime + MaxLate) \in PacketType
    BY <2>2, PduType
  <2>4. faults' \in 0 .. MaxFaults
    BY <2>1, Numbers DEF Stray, Fault
  <2> QED BY <2>1, <2>3, <2>4 DEF Stray
<1>13. CASE TakeFrame
  BY <1>13 DEF TakeFrame, Take
<1>14. CASE ArriveInRing
  <2>1. Head(net) \in PacketType /\ Tail(net) \in Seq(PacketType)
    BY <1>14, HeadTail DEF ArriveInRing
  <2>2. umem' \in [Frames -> PacketType]
    <3>1. PICK f \in nic : umem' = [umem EXCEPT ![f] = Head(net)]
      BY <1>14 DEF ArriveInRing, Deliver
    <3> QED BY <2>1, <3>1
  <2> QED BY <1>14, <2>1, <2>2 DEF ArriveInRing
<1>15. CASE NoPlace
  BY <1>15, HeadTail DEF NoPlace
<1>16. CASE ArriveInStack
  <2>1. Head(net) \in PacketType /\ Tail(net) \in Seq(PacketType)
    BY <1>16, HeadTail DEF ArriveInStack
  <2>2. socket' \in Seq(PacketType)
    BY <1>16, <2>1 DEF ArriveInStack
  <2> QED BY <1>16, <2>1, <2>2 DEF ArriveInStack
<1> QED BY <1>1, <1>2, <1>3, <1>4, <1>5, <1>6, <1>7, <1>8, <1>9, <1>10, <1>11, <1>12,
           <1>13, <1>14, <1>15, <1>16 DEF Next

-----------------------------------------------------------------------------
(* Where the listener is, and its two receive paths.                       *)

PathInv ==
  /\ main \in {"start", "xsk", "packet", "poll", "batch", "close", "exit"}
  /\ on_queue \in BOOLEAN /\ use_xdp \in BOOLEAN /\ sk \in BOOLEAN /\ running \in BOOLEAN
  /\ main \in {"start", "packet"} => context = "none"
  /\ main \in {"start", "xsk", "packet"} => ~use_xdp /\ ~sk
  \* In the loop it has one of the two.
  /\ InLoop /\ use_xdp => context = "open" /\ ~sk
  /\ InLoop /\ ~use_xdp => sk
  /\ main = "batch" => use_xdp
  /\ sk => context = "none"
  /\ socket # <<>> => sk

LEMMA InitPath == Init => ContextInv /\ PathInv
BY DEF Init, ContextInit, ListenerInit, ContextInv, HeldInv, LostInv, PathInv, InLoop,
       OfSocket

\* What a step may do to the context.
LEMMA ContextMoves ==
  ASSUME ContextInv, [Next]_vars
  PROVE  \/ UNCHANGED contextVars
         \/ BeginCreate \/ Create \/ CreateFails \/ AnswerLost \/ BeginDestroy
         \/ Destroy \/ Destroyed \/ Die
<1>1. CASE UNCHANGED vars
  BY <1>1 DEF vars, contextVars
<1>2. CASE Bring \/ TearDown
  BY <1>2 DEF Bring, TearDown
<1>3. CASE Setup
  BY <1>3 DEF Setup, Steer, NoQueue, Opened, NotOpened, OpenSocket
<1>4. CASE PollRings \/ ReleaseBatch \/ ReleaseRx \/ Finish \/ Signal
  BY <1>4 DEF PollRings, ReleaseBatch, ReleaseRx, Finish, Signal
<1>5. CASE EarlySignal \/ LeaveLoop
  BY <1>5 DEF EarlySignal, LeaveLoop
<1>6. CASE Process
  BY <1>6 DEF Process, ProcessNext, ReceiveDatagram
<1>7. CASE Tick \/ Send \/ Skip \/ Lose \/ Hold \/ \E odd \in StrayOdds : Stray(odd)
  BY <1>7 DEF Tick, Send, Skip, Lose, Hold, Stray
<1>8. CASE TakeFrame \/ ArriveInRing \/ NoPlace \/ ArriveInStack
  BY <1>8 DEF TakeFrame, ArriveInRing, NoPlace, ArriveInStack
<1> QED BY <1>1, <1>2, <1>3, <1>4, <1>5, <1>6, <1>7, <1>8 DEF Next

LEMMA ContextStep == ContextInv /\ [Next]_vars => ContextInv'
BY ContextMoves, CreateContext, DestroyContext, OtherContext

LEMMA PathStep == ContextInv /\ PathInv /\ [Next]_vars => PathInv'
<1> SUFFICES ASSUME ContextInv, PathInv, [Next]_vars PROVE PathInv'
  OBVIOUS
<1> USE DEF PathInv, InLoop
<1>1. CASE UNCHANGED vars
  BY <1>1 DEF vars, contextVars, listenerVars, pathVars
<1>2. CASE Bring /\ UNCHANGED listenerVars
  BY <1>2 DEF Bring, listenerVars
<1>3. CASE TearDown /\ UNCHANGED listenerVars
  BY <1>3 DEF TearDown, listenerVars, Destroy, Destroyed
<1>4. CASE Setup
  <2>1. CASE Steer
    BY <2>1 DEF Steer, BeginCreate
  <2>2. CASE NoQueue
    BY <2>2 DEF NoQueue, contextVars, pathVars
  <2>3. CASE Opened
    BY <2>3 DEF Opened, contextVars
  <2>4. CASE NotOpened
    BY <2>4 DEF NotOpened, contextVars, pathVars
  <2>5. CASE OpenSocket
    BY <2>5 DEF OpenSocket, contextVars, pathVars
  <2> QED BY <1>4, <2>1, <2>2, <2>3, <2>4, <2>5 DEF Setup
<1>5. CASE PollRings
  BY <1>5 DEF PollRings, contextVars, pathVars
<1>6. CASE ReleaseBatch
  BY <1>6 DEF ReleaseBatch, contextVars, pathVars
<1>7. CASE ReleaseRx
  BY <1>7 DEF ReleaseRx, contextVars, listenerVars
<1>8. CASE Finish
  BY <1>8 DEF Finish, contextVars, pathVars
<1>9. CASE Signal
  BY <1>9 DEF Signal, contextVars, pathVars
<1>10. CASE EarlySignal
  BY <1>10 DEF EarlySignal, pathVars, Die
<1>11. CASE LeaveLoop
  BY <1>11 DEF LeaveLoop, contextVars, pathVars, BeginDestroy
<1>12. CASE Process
  <2>1. CASE ProcessNext(now)
    BY <2>1 DEF ProcessNext, contextVars, pathVars
  <2>2. CASE ReceiveDatagram(now)
    BY <2>2 DEF ReceiveDatagram, contextVars, pathVars
  <2> QED BY <1>12, <2>1, <2>2 DEF Process
<1>13. CASE Tick
  BY <1>13 DEF Tick, contextVars, pathVars
<1>14. CASE Send \/ Skip \/ Lose \/ Hold \/ \E odd \in StrayOdds : Stray(odd)
  BY <1>14 DEF Send, Skip, Lose, Hold, Stray, contextVars, listenerVars
<1>15. CASE TakeFrame \/ ArriveInRing \/ NoPlace
  BY <1>15 DEF TakeFrame, ArriveInRing, NoPlace, contextVars, listenerVars
<1>16. CASE ArriveInStack
  <2>1. socket' # <<>> => sk
    BY <1>16 DEF ArriveInStack
  <2> QED BY <1>16, <2>1 DEF ArriveInStack, contextVars, pathVars
<1> QED BY <1>1, <1>2, <1>3, <1>4, <1>5, <1>6, <1>7, <1>8, <1>9, <1>10, <1>11, <1>12,
           <1>13, <1>14, <1>15, <1>16 DEF Next

-----------------------------------------------------------------------------
(* The rings of the listener, from bring-up to tear-down.                  *)

\* The receive ring is mapped and its socket open,
Mapped == {"rx", "socket"} \subseteq held

\* before and after which there is nothing in either ring.
Quiet ==
  /\ fq \in Ring /\ fq.producer = 0 /\ fq.consumer = 0
  /\ rx \in Ring /\ rx.producer = 0 /\ rx.consumer = 0
  /\ nic = {}
  /\ recycled = 0

\* Every frame is free or holds a packet the listener has yet to release.
AllFrames == Frames = Free \cup {Received[i].frame : i \in 1 .. Len(Received)}

RingInv ==
  /\ Mapped => IInv /\ AllFrames
  /\ ~Mapped => Quiet
  /\ nic # {} => "bound" \in held

\* The batch it works on is in the receive ring.
BatchInv ==
  /\ rcvd \in 0 .. MaxBatch /\ next \in 0 .. rcvd
  /\ main = "batch" => recycled = 0 /\ rcvd \in 1 .. Count(rx)
  /\ main # "batch" => rcvd = 0 /\ next = 0

ListenerInv == ContextInv /\ PathInv /\ RingInv /\ BatchInv

\* The listener looks at the rings of an open context only.
LEMMA BatchMapped == ListenerInv /\ main = "batch" => Mapped /\ IInv
<1> SUFFICES ASSUME ListenerInv, main = "batch" PROVE Mapped /\ IInv
  OBVIOUS
<1>1. held = Steps
  BY DEF ListenerInv, PathInv, InLoop, ContextInv, HeldInv
<1>2. Mapped
  BY <1>1, StepNames DEF Mapped
<1> QED BY <1>2 DEF ListenerInv, RingInv

\* What a step may do to the rings.
RingsMoves ==
  \/ UNCHANGED ringVars /\ (Mapped' <=> Mapped) /\ ("bound" \in held => "bound" \in held')
  \/ Take /\ "bound" \in held /\ held' = held
  \/ net # <<>> /\ Deliver(Head(net)) /\ held' = held
  \/ main = "batch" /\ next = rcvd /\ Recycle(rcvd) /\ held' = held
  \/ AdvanceConsumer /\ held' = held
  \/ RingsPopulated /\ ~Mapped /\ Mapped'
  \/ RingsEmpty /\ ~Mapped'

LEMMA RingsStep ==
  ASSUME ListenerInv, [Next]_vars
  PROVE  RingsMoves
<1> DEFINE Same == UNCHANGED ringVars /\ held' = held
<1>0. Same => RingsMoves
  BY DEF RingsMoves, Mapped
<1>1. CASE UNCHANGED vars
  BY <1>0, <1>1 DEF vars, contextVars
<1>2. CASE Create
  <2>1. PICK n \in 0 .. 9 :
          /\ held = Done(n) /\ held' = Done(n + 1)
          /\ IF n = 7 THEN RingsPopulated ELSE UNCHANGED ringVars
    BY <1>2, CreateMoves DEF ListenerInv
  <2>2. n \in 0 .. 10 /\ n + 1 \in 0 .. 10
    OBVIOUS
  <2>3. /\ Mapped <=> n >= 8
        /\ Mapped' <=> n + 1 >= 8
        /\ "bound" \in held => "bound" \in held'
    <3>1. "bound" \in Done(n) => "bound" \in Done(n + 1)
      BY DoneNext
    <3> QED BY <2>1, <2>2, <3>1, DoneSteps DEF Mapped
  <2>4. CASE n = 7
    BY <2>1, <2>3, <2>4 DEF RingsMoves
  <2>5. CASE n # 7
    BY <2>1, <2>3, <2>5 DEF RingsMoves
  <2> QED BY <2>4, <2>5
<1>3. CASE Destroy
  <2>1. CASE /\ "socket" \in held /\ held' = held \ OfSocket
             /\ RingsEmpty
    BY <2>1 DEF RingsMoves, Mapped, OfSocket
  <2>2. CASE /\ UNCHANGED ringVars
             /\ \E step \in {"link", "prog", "map"} : held' = held \ {step}
    BY <2>2 DEF RingsMoves, Mapped
  <2>3. CASE /\ UNCHANGED ringVars
             /\ "socket" \notin held
             /\ \E step \in {"fill", "rx", "umem"} : held' = held \ {step}
    BY <2>3 DEF RingsMoves, Mapped
  <2> QED BY <1>3, <2>1, <2>2, <2>3, DestroyMoves DEF ListenerInv
<1>4. CASE CreateFails \/ AnswerLost \/ Destroyed
  BY <1>0, <1>4 DEF CreateFails, AnswerLost, Destroyed
<1>5. CASE Setup
  BY <1>0, <1>5 DEF Setup, Steer, NoQueue, Opened, NotOpened, OpenSocket, BeginCreate,
       contextVars
<1>6. CASE PollRings \/ Finish \/ Signal
  BY <1>0, <1>6 DEF PollRings, Finish, Signal, contextVars
<1>7. CASE ReleaseBatch
  BY <1>7 DEF ReleaseBatch, RingsMoves, contextVars
<1>8. CASE ReleaseRx
  BY <1>8 DEF ReleaseRx, RingsMoves, contextVars
<1>9. CASE EarlySignal
  BY <1>9 DEF EarlySignal, Die, RingsMoves, Mapped
<1>10. CASE LeaveLoop
  BY <1>0, <1>10 DEF LeaveLoop, BeginDestroy, contextVars
<1>11. CASE Process
  BY <1>0, <1>11 DEF Process, ProcessNext, ReceiveDatagram, contextVars
<1>12. CASE Tick \/ Send \/ Skip \/ Lose \/ Hold \/ \E odd \in StrayOdds : Stray(odd)
  BY <1>0, <1>12 DEF Tick, Send, Skip, Lose, Hold, Stray, contextVars
<1>13. CASE TakeFrame
  BY <1>13 DEF TakeFrame, RingsMoves, contextVars
<1>14. CASE ArriveInRing
  BY <1>14 DEF ArriveInRing, RingsMoves, contextVars
<1>15. CASE NoPlace \/ ArriveInStack
  BY <1>0, <1>15 DEF NoPlace, ArriveInStack, contextVars
<1> QED BY <1>1, <1>2, <1>3, <1>4, <1>5, <1>6, <1>7, <1>8, <1>9, <1>10, <1>11, <1>12,
           <1>13, <1>14, <1>15 DEF Next, Bring, TearDown

\* Rings at rest hold nothing.
LEMMA QuietRings ==
  ASSUME Quiet
  PROVE  Count(fq) = 0 /\ Count(rx) = 0 /\ Received = <<>>
<1>1. Count(fq) = 0 /\ Count(rx) = 0
  <2>1. 0 \in 0 .. NumFrames
    BY RingRange
  <2> QED BY <2>1, CountFromZero DEF Quiet
<1> QED BY <1>1, BehindEmpty DEF Received, Quiet

\* A new socket's rings.
LEMMA PopulatedStep ==
  ASSUME Quiet, RingsPopulated
  PROVE  IInv' /\ Received' = <<>> /\ Free' = Frames /\ AllFrames'
<1>1. Populated'
  BY DEF Quiet, RingsPopulated, Populated, Ring, Frames
<1>2. (Populated => IInv)'
  BY PopulatedInv, PTL
<1>3. (Populated => Received = <<>> /\ Free = Frames)'
  BY PopulatedPool, PTL
<1>4. IInv' /\ Received' = <<>> /\ Free' = Frames
  BY <1>1, <1>2, <1>3
<1>5. AllFrames'
  <2>1. {Received'[i].frame : i \in 1 .. Len(Received')} = {}
    <3>1. Len(Received') = 0
      BY <1>4
    <3> QED BY <3>1
  <2> QED BY <1>4, <2>1 DEF AllFrames, Frames
<1> QED BY <1>4, <1>5

\* A closed socket's.
LEMMA EmptyStep ==
  ASSUME RingsTypeOK, RingsEmpty
  PROVE  Quiet'
<1>1. 0 \in Indices
  BY RingRange DEF Indices
<1> QED BY <1>1 DEF RingsTypeOK, RingsEmpty, Quiet, Ring

\* The frames in either place stay all there are, when one is received
LEMMA ReceivesAll ==
  ASSUME IInv, AllFrames, NEW P, umem \in [Frames -> P], NEW p \in P, Receives(p)
  PROVE  AllFrames'
<1>1. PICK f \in Free : /\ Received' = Append(Received, [frame |-> f, packet |-> p])
                       /\ Free' = Free \ {f}
  BY DEF Receives
<1> DEFINE r == [frame |-> f, packet |-> p]
           n == Len(Received)
           S == [frame : Frames, packet : P]
<1>2. Received \in Seq(S) /\ n \in Nat /\ Free \subseteq Frames
  BY ReceivedShape, FreeType
<1>3. r \in S /\ r.frame = f
  BY <1>2
<1> HIDE DEF r, S
<1>4. Len(Received') = n + 1 /\ Received'[n + 1] = r
      /\ \A i \in 1 .. n : Received'[i] = Received[i]
  BY <1>1, <1>2, <1>3 DEF r
<1> HIDE DEF n
<1>5. {Received'[i].frame : i \in 1 .. n + 1}
        = {Received[i].frame : i \in 1 .. n} \cup {f}
  <2>1. \A i \in 1 .. n + 1 : i \in 1 .. n \/ i = n + 1
    BY <1>2
  <2>2. \A i \in 1 .. n : i \in 1 .. n + 1
    BY <1>2
  <2>3. n + 1 \in 1 .. n + 1
    BY <1>2
  <2> QED BY <1>3, <1>4, <2>1, <2>2, <2>3
<1>6. Frames = Free \cup {Received[i].frame : i \in 1 .. n}
  BY DEF AllFrames, n
<1>7. Frames' = Frames
  BY DEF Frames
<1> QED BY <1>1, <1>4, <1>5, <1>6, <1>7 DEF AllFrames

\* or the first are released.
LEMMA ReleasesAll ==
  ASSUME IInv, AllFrames, NEW P, umem \in [Frames -> P],
         NEW n \in 1 .. Len(Received), Releases(n)
  PROVE  AllFrames'
<1> DEFINE m == Len(Received)
           S == [frame : Frames, packet : P]
<1>1. Received \in Seq(S) /\ m \in Nat
  BY ReceivedShape
<1>2. Received' = SubSeq(Received, n + 1, m)
      /\ Free' = Free \cup {Received[i].frame : i \in 1 .. n}
  BY DEF Releases
<1> HIDE DEF S
<1>3. Len(Received') = m - n /\ \A i \in 1 .. m - n : Received'[i] = Received[n + i]
  BY <1>1, <1>2
<1> HIDE DEF m
<1>4. Frames = Free \cup {Received[i].frame : i \in 1 .. m}
  BY DEF AllFrames, m
<1>5. {Received[i].frame : i \in 1 .. m}
        = {Received[i].frame : i \in 1 .. n} \cup {Received'[i].frame : i \in 1 .. m - n}
  <2>1. \A i \in 1 .. m : i \in 1 .. n \/ (i - n \in 1 .. m - n /\ n + (i - n) = i)
    BY <1>1
  <2>2. \A i \in 1 .. n : i \in 1 .. m
    BY <1>1 DEF m
  <2>3. \A i \in 1 .. m - n : n + i \in 1 .. m
    BY <1>1
  <2>4. \A i \in 1 .. m : i \in 1 .. n \/ \E j \in 1 .. m - n : Received[i] = Received'[j]
    BY <1>3, <2>1
  <2>5. \A j \in 1 .. m - n : \E i \in 1 .. m : Received[i] = Received'[j]
    BY <1>3, <2>3
  <2> QED BY <2>2, <2>4, <2>5
<1>6. Frames' = Frames
  BY DEF Frames
<1> QED BY <1>2, <1>3, <1>4, <1>5, <1>6 DEF AllFrames

\* The invariant of the rings, whatever a step does to them.
LEMMA RingStep ==
  ASSUME ListenerInv, StreamTyped, RingsMoves
  PROVE  RingInv'
<1> USE DEF ListenerInv, RingInv
<1>1. CASE UNCHANGED ringVars /\ (Mapped' <=> Mapped) /\ ("bound" \in held => "bound" \in held')
  <2>1. Mapped => IInv' /\ AllFrames'
    <3>1. IInv => IInv'
      BY <1>1, StutterInv
    <3>2. AllFrames => AllFrames'
      BY <1>1 DEF ringVars, AllFrames, Frames, Free, Filled, Received
    <3> QED BY <3>1, <3>2
  <2>2. ~Mapped => Quiet'
    BY <1>1 DEF Quiet, ringVars
  <2>3. nic' = nic
    BY <1>1 DEF ringVars
  <2> QED BY <1>1, <2>1, <2>2, <2>3
<1>2. ASSUME IInv, UNCHANGED <<Received, Free>>, AllFrames
      PROVE  AllFrames'
  BY <1>2 DEF AllFrames, Frames
<1>3. CASE Take /\ "bound" \in held /\ held' = held
  <2>1. Mapped
    BY <1>3 DEF ContextInv, HeldInv, Mapped
  <2>2. IInv' /\ AllFrames'
    BY <1>2, <1>3, <2>1, TakeInv, TakePool
  <2> QED BY <1>3, <2>1, <2>2 DEF Mapped
<1>4. CASE net # <<>> /\ Deliver(Head(net)) /\ held' = held
  <2>1. nic # {}
    BY <1>4 DEF Deliver, Room
  <2>2. Mapped /\ IInv /\ AllFrames
    BY <2>1 DEF ContextInv, HeldInv, Mapped
  <2>3. Head(net) \in PacketType /\ umem \in [Frames -> PacketType]
    BY <1>4, HeadTail DEF StreamTyped
  <2>4. Receives(Head(net))
    BY <1>4, <2>2, <2>3, DeliverPool
  <2>5. IInv' /\ AllFrames'
    BY <1>4, <2>2, <2>3, <2>4, DeliverInv, ReceivesAll
  <2> QED BY <1>4, <2>1, <2>2, <2>5 DEF Mapped
<1>5. CASE main = "batch" /\ next = rcvd /\ Recycle(rcvd) /\ held' = held
  <2>1. Mapped /\ IInv /\ AllFrames
    BY <1>5, BatchMapped
  <2>2. rcvd \in 1 .. Count(rx) /\ umem \in [Frames -> PacketType]
    BY <1>5 DEF BatchInv, StreamTyped
  <2>3. Releases(rcvd) /\ rcvd \in 1 .. Len(Received)
    BY <1>5, <2>1, <2>2, RecyclePool
  <2>4. IInv' /\ AllFrames'
    BY <1>5, <2>1, <2>2, <2>3, RecycleInv, ReleasesAll
  <2>5. nic' = nic
    BY <1>5 DEF Recycle
  <2> QED BY <1>5, <2>1, <2>4, <2>5 DEF Mapped
<1>6. CASE AdvanceConsumer /\ held' = held
  <2>1. Mapped
    BY <1>6 DEF AdvanceConsumer, Quiet
  <2>2. IInv' /\ AllFrames'
    BY <1>2, <1>6, <2>1, AdvanceInv, AdvancePool
  <2>3. nic' = nic
    BY <1>6 DEF AdvanceConsumer
  <2> QED BY <1>6, <2>1, <2>2, <2>3 DEF Mapped
<1>7. CASE RingsPopulated /\ ~Mapped /\ Mapped'
  <2>1. nic' = {}
    BY <1>7 DEF Quiet, RingsPopulated
  <2> QED BY <1>7, <2>1, PopulatedStep
<1>8. CASE RingsEmpty /\ ~Mapped'
  <2>1. RingsTypeOK
    BY RingRange DEF IInv, Quiet, RingsTypeOK
  <2>2. Quiet'
    BY <1>8, <2>1, EmptyStep
  <2> QED BY <1>8, <2>2 DEF Quiet
<1> QED BY <1>1, <1>3, <1>4, <1>5, <1>6, <1>7, <1>8 DEF RingsMoves

\* The batch stays in the ring until it is released.
LEMMA BatchStep ==
  ASSUME ListenerInv, [Next]_vars
  PROVE  BatchInv'
<1> USE DEF BatchInv
<1>1. BatchInv /\ MaxBatch \in Nat \ {0}
  BY ListenerAssumption DEF ListenerInv
<1> DEFINE Same == /\ UNCHANGED <<rcvd, next>>
                   /\ main # "batch" /\ main' # "batch"
<1>2. Same => BatchInv'
  BY <1>1
<1>3. CASE UNCHANGED vars
  BY <1>1, <1>3 DEF vars, listenerVars, ringVars, Count
<1>4. CASE (Bring \/ TearDown) /\ UNCHANGED listenerVars
  BY <1>2, <1>4 DEF Bring, TearDown, listenerVars
<1>5. CASE Setup
  BY <1>2, <1>5 DEF Setup, Steer, NoQueue, Opened, NotOpened, OpenSocket
<1>6. CASE PollRings
  <2>1. main = "poll" /\ use_xdp /\ recycled = 0 /\ Count(rx) > 0
        /\ rcvd' = Peek(MaxBatch) /\ next' = 0 /\ UNCHANGED ringVars /\ main' = "batch"
    BY <1>6 DEF PollRings
  <2>2. held = Steps
    BY <2>1 DEF ListenerInv, PathInv, InLoop, ContextInv, HeldInv
  <2>3. IInv
    BY <2>2, StepNames DEF ListenerInv, RingInv, Mapped
  <2>4. Count(rx) \in Nat
    BY <2>3, CountsNat DEF IInv
  <2>5. Count(rx') = Count(rx) /\ recycled' = 0
    BY <2>1 DEF ringVars
  <2> QED BY <1>1, <2>1, <2>4, <2>5 DEF Peek
<1>7. CASE ReleaseBatch
  BY <1>1, <1>7 DEF ReleaseBatch
<1>8. CASE ReleaseRx
  <2>1. recycled > 0
    BY <1>8 DEF ReleaseRx, AdvanceConsumer
  <2>2. main # "batch"
    BY <1>1, <2>1
  <2> QED BY <1>2, <1>8, <2>2 DEF ReleaseRx, listenerVars
<1>9. CASE Finish \/ EarlySignal \/ LeaveLoop
  BY <1>2, <1>9 DEF Finish, EarlySignal, LeaveLoop
<1>10. CASE Signal
  BY <1>1, <1>10 DEF Signal, ringVars, Count
<1>11. CASE Process
  <2>1. CASE ProcessNext(now)
    BY <1>1, <2>1 DEF ProcessNext, ringVars, Count
  <2>2. CASE ReceiveDatagram(now)
    BY <1>2, <2>2 DEF ReceiveDatagram
  <2> QED BY <1>11, <2>1, <2>2 DEF Process
<1>12. CASE Tick \/ NoPlace \/ ArriveInStack
  BY <1>1, <1>12 DEF Tick, NoPlace, ArriveInStack, ringVars, Count, listenerVars
<1>13. CASE Send \/ Skip \/ Lose \/ Hold \/ \E odd \in StrayOdds : Stray(odd)
  BY <1>1, <1>13 DEF Send, Skip, Lose, Hold, Stray, listenerVars, ringVars, Count
<1>14. CASE TakeFrame
  BY <1>1, <1>14 DEF TakeFrame, Take, listenerVars, Count
<1>15. CASE ArriveInRing
  <2>1. UNCHANGED <<main, rcvd, next>> /\ Deliver(Head(net))
    BY <1>15 DEF ArriveInRing, listenerVars
  <2>2. CASE main = "batch"
    <3>1. IInv
      BY <2>2, BatchMapped
    <3>2. Count(rx') = Count(rx) + 1 /\ recycled' = recycled
      BY <2>1, <3>1, DeliverFrame
    <3>3. Count(rx) \in Nat
      BY <3>1, CountsNat DEF IInv
    <3> QED BY <1>1, <2>1, <2>2, <3>2, <3>3
  <2>3. CASE main # "batch"
    BY <1>2, <2>1, <2>3
  <2> QED BY <2>2, <2>3
<1> QED BY <1>3, <1>4, <1>5, <1>6, <1>7, <1>8, <1>9, <1>10, <1>11, <1>12, <1>13, <1>14,
           <1>15 DEF Next

LEMMA InitListener == Init => ListenerInv /\ StreamTyped
<1> SUFFICES ASSUME Init PROVE ListenerInv /\ StreamTyped
  OBVIOUS
<1>1. ContextInv /\ PathInv /\ StreamTyped
  BY InitPath, InitTyped
<1>2. Quiet /\ ~Mapped
  <2>1. 0 \in Indices /\ 0 \in Frames
    BY RingRange DEF Indices, Frames
  <2> QED BY <2>1 DEF Init, ContextInit, Quiet, Ring, Mapped
<1>3. RingInv
  BY <1>2 DEF RingInv, Quiet
<1>4. BatchInv
  BY ListenerAssumption DEF Init, ListenerInit, BatchInv
<1> QED BY <1>1, <1>3, <1>4 DEF ListenerInv

\* The invariant of the listener and its rings.
LEMMA ListenerStep == ListenerInv /\ StreamTyped /\ [Next]_vars => ListenerInv' /\ StreamTyped'
<1> SUFFICES ASSUME ListenerInv, StreamTyped, [Next]_vars
             PROVE  ListenerInv' /\ StreamTyped'
  OBVIOUS
<1>1. ContextInv' /\ PathInv'
  BY ContextStep, PathStep DEF ListenerInv
<1>2. RingInv'
  BY RingsStep, RingStep
<1> QED BY <1>1, <1>2, BatchStep, TypedStep DEF ListenerInv

LEMMA ListenerHolds == Spec => [](ListenerInv /\ StreamTyped)
BY InitListener, ListenerStep, PTL DEF Spec

\* Whatever the kernel does between the steps of xsk_ctx_create(), of
\* xsk_ctx_destroy() and of the listener, packets are diverted to memory that
\* is mapped, and in the loop to where it reads.
THEOREM StreamIsRead == Spec => []RedirectsRead
<1>1. ListenerInv => RedirectsRead
  <2> SUFFICES ASSUME ListenerInv PROVE RedirectsRead
    OBVIOUS
  <2>1. Redirects \/ nic # {} => {"umem", "fill", "rx", "socket"} \subseteq held
    BY DEF ListenerInv, ContextInv, HeldInv, RingInv, Redirects
  <2>2. Redirects /\ InLoop => use_xdp
    BY DEF ListenerInv, ContextInv, HeldInv, PathInv, Redirects
  <2>3. InLoop => use_xdp # sk
    BY DEF ListenerInv, PathInv
  <2> QED BY <2>1, <2>2, <2>3 DEF RedirectsRead
<1> QED BY <1>1, ListenerHolds, PTL

\* xsk_ctx_create() that fails and xsk_ctx_destroy() leave nothing behind,
\* whichever step they were at, but what a call with a lost answer did.
THEOREM NothingStays == Spec => []NothingLeftBehind
<1>1. ListenerInv => NothingLeftBehind
  BY DEF ListenerInv, ContextInv, HeldInv, LostInv, NothingLeftBehind
<1> QED BY <1>1, ListenerHolds, PTL

\* The step of the pool of frames a step of the program is.
LEMMA QueueStep ==
  ASSUME ListenerInv, ListenerInv', StreamTyped, RingsMoves
  PROVE  [Pool!Next]_<<Received, IF {"rx", "socket"} \subseteq held THEN Free ELSE Frames>>
<1> DEFINE free == IF {"rx", "socket"} \subseteq held THEN Free ELSE Frames
<1>0. Frames' = Frames
  BY DEF Frames
<1>1. CASE UNCHANGED ringVars /\ (Mapped' <=> Mapped)
  <2>1. UNCHANGED <<Received, Free>>
    BY <1>1 DEF ringVars, Received, Free, Filled
  <2> QED BY <1>0, <1>1, <2>1 DEF Mapped
<1>2. ASSUME Mapped, held' = held, UNCHANGED <<Received, Free>>
      PROVE  UNCHANGED <<Received, free>>
  BY <1>2
<1>3. CASE Take /\ "bound" \in held /\ held' = held
  <2>1. Mapped
    BY <1>3 DEF ListenerInv, ContextInv, HeldInv, Mapped
  <2>2. UNCHANGED <<Received, Free>>
    BY <1>3, <2>1, TakePool DEF ListenerInv, RingInv
  <2> QED BY <1>2, <1>3, <2>1, <2>2
<1>4. CASE net # <<>> /\ Deliver(Head(net)) /\ held' = held
  <2>1. nic # {}
    BY <1>4 DEF Deliver, Room
  <2>2. Mapped /\ Mapped' /\ IInv
    BY <1>4, <2>1 DEF ListenerInv, RingInv, ContextInv, HeldInv, Mapped
  <2>3. Head(net) \in PacketType /\ umem \in [Frames -> PacketType]
    BY <1>4, HeadTail DEF StreamTyped
  <2>4. Receives(Head(net))
    BY <1>4, <2>2, <2>3, DeliverPool
  <2>5. free = Free /\ free' = Free'
    BY <2>2 DEF Mapped
  <2>6. Pool!Receive
    BY <2>2, <2>3, <2>4, <2>5, ReceiveStep DEF Pool!Receive
  <2> QED BY <2>6 DEF Pool!Next
<1>5. CASE main = "batch" /\ next = rcvd /\ Recycle(rcvd) /\ held' = held
  <2>1. Mapped /\ Mapped' /\ IInv
    BY <1>5, BatchMapped DEF Mapped
  <2>2. rcvd \in 1 .. Count(rx) /\ umem \in [Frames -> PacketType]
    BY <1>5 DEF ListenerInv, BatchInv, StreamTyped
  <2>3. Releases(rcvd) /\ rcvd \in 1 .. Len(Received)
    BY <1>5, <2>1, <2>2, RecyclePool
  <2>4. free = Free /\ free' = Free'
    BY <2>1 DEF Mapped
  <2>5. Pool!Release
    BY <2>3, <2>4 DEF Pool!Release, Releases
  <2> QED BY <2>5 DEF Pool!Next
<1>6. CASE AdvanceConsumer /\ held' = held
  <2>1. Mapped
    BY <1>6 DEF ListenerInv, RingInv, AdvanceConsumer, Quiet
  <2>2. UNCHANGED <<Received, Free>>
    BY <1>6, <2>1, AdvancePool DEF ListenerInv, RingInv
  <2> QED BY <1>2, <1>6, <2>1, <2>2
<1>7. CASE RingsPopulated /\ ~Mapped /\ Mapped'
  <2>1. Quiet
    BY <1>7 DEF ListenerInv, RingInv
  <2>2. Received = <<>> /\ Received' = <<>> /\ Free' = Frames
    BY <1>7, <2>1, QuietRings, PopulatedStep
  <2> QED BY <1>0, <1>7, <2>2 DEF Mapped
<1>8. CASE RingsEmpty /\ ~Mapped'
  <2>1. Quiet'
    BY <1>8 DEF ListenerInv, RingInv
  <2>2. (Quiet => Received = <<>>)'
    BY QuietRings, PTL
  <2>3. Received' = <<>> /\ free' = Frames
    BY <1>0, <1>8, <2>1, <2>2 DEF Mapped
  <2>4. CASE ~Mapped
    <3>1. Received = <<>> /\ free = Frames
      BY <2>4, QuietRings DEF ListenerInv, RingInv, Mapped
    <3> QED BY <2>3, <3>1
  <2>5. CASE Mapped
    <3>1. IInv /\ AllFrames /\ free = Free
      BY <2>5 DEF ListenerInv, RingInv, Mapped
    <3>2. Received \in Seq([frame : Frames, packet : PacketType]) /\ Len(Received) \in Nat
      BY <3>1, ReceivedShape DEF StreamTyped
    <3>3. CASE Len(Received) = 0
      <4>1. {Received[i].frame : i \in 1 .. Len(Received)} = {}
        BY <3>3
      <4>2. Received = <<>> /\ Free = Frames
        BY <3>1, <3>2, <3>3, <4>1 DEF AllFrames
      <4> QED BY <2>3, <3>1, <4>2
    <3>4. CASE Len(Received) # 0
      <4> DEFINE m == Len(Received)
      <4>1. m \in 1 .. m
        BY <3>2, <3>4
      <4>2. SubSeq(Received, m + 1, m) = <<>>
        BY <3>2
      <4>3. free' = free \cup {Received[i].frame : i \in 1 .. m}
        BY <2>3, <3>1 DEF AllFrames
      <4>4. Pool!Release
        BY <2>3, <4>1, <4>2, <4>3 DEF Pool!Release
      <4> QED BY <4>4 DEF Pool!Next
    <3> QED BY <3>3, <3>4
  <2> QED BY <2>4, <2>5
<1> QED BY <1>1, <1>3, <1>4, <1>5, <1>6, <1>7, <1>8 DEF RingsMoves

\* The listener's receive path is a pool of frames from bring-up to tear-down:
\* no packet it has yet to look at is lost, repeated, overtaken or overwritten,
\* and no frame leaks.
THEOREM ListenerQueue == Spec => QueueSpec
<1>1. Init => Pool!Init
  <2> SUFFICES ASSUME Init PROVE Pool!Init
    OBVIOUS
  <2>1. Quiet
    BY InitListener DEF ListenerInv, RingInv, Mapped, Init, ContextInit
  <2>2. Received = <<>>
    BY <2>1, QuietRings
  <2> QED BY <2>2 DEF Pool!Init, Init, ContextInit
<1>2. /\ ListenerInv /\ StreamTyped /\ (ListenerInv /\ StreamTyped)'
      /\ [Next]_vars
      => [Pool!Next]_<<Received, IF {"rx", "socket"} \subseteq held THEN Free ELSE Frames>>
  BY RingsStep, QueueStep
<1> QED BY <1>1, <1>2, ListenerHolds, PTL DEF Spec, QueueSpec, Pool!Spec

-----------------------------------------------------------------------------
(* The packets the kernel holds for the listener, as a queue.              *)

\* The packets of the receive ring the listener has yet to look at,
Unread == [i \in 1 .. Len(Received) - next |-> Received[next + i].packet]

\* and the queue it reads, of one path or the other.
Queue == IF sk THEN socket ELSE Unread

\* A batch is no more than what was received.
LEMMA NextInQueue ==
  ASSUME ListenerInv, StreamTyped
  PROVE  /\ Received \in Seq([frame : Frames, packet : PacketType])
         /\ Len(Received) = Count(rx) - recycled
         /\ Len(Received) \in Nat /\ next \in Nat /\ next <= Len(Received)
         /\ Count(rx) \in Nat /\ recycled \in Nat
<1>1. next \in Nat /\ rcvd \in Nat /\ next <= rcvd
  BY ListenerAssumption DEF ListenerInv, BatchInv
<1>2. CASE Mapped
  <2>1. IInv /\ umem \in [Frames -> PacketType]
    BY <1>2 DEF ListenerInv, RingInv, StreamTyped
  <2>2. /\ Received \in Seq([frame : Frames, packet : PacketType])
        /\ Len(Received) = Count(rx) - recycled /\ Len(Received) \in Nat
    BY <2>1, ReceivedShape
  <2>3. Count(rx) \in Nat /\ recycled \in Nat
    BY <2>1, CountsNat DEF IInv
  <2>4. next <= Len(Received)
    BY <1>1, <2>2, <2>3 DEF ListenerInv, BatchInv
  <2> QED BY <1>1, <2>2, <2>3, <2>4
<1>3. CASE ~Mapped
  <2>1. Received = <<>> /\ Count(rx) = 0 /\ recycled = 0
    BY <1>3, QuietRings DEF ListenerInv, RingInv, Quiet
  <2>2. next = 0
    BY <1>3, BatchMapped DEF ListenerInv, BatchInv
  <2> QED BY <1>1, <2>1, <2>2
<1> QED BY <1>2, <1>3

\* A sequence's element.
LEMMA SeqElement ==
  ASSUME NEW P, NEW s \in Seq(P), NEW i \in 1 .. Len(s)
  PROVE  s[i] \in P
OBVIOUS

\* The queue of the rings.
LEMMA UnreadShape ==
  ASSUME ListenerInv, StreamTyped
  PROVE  /\ Unread \in Seq(PacketType)
         /\ Len(Unread) = Len(Received) - next
         /\ \A i \in 1 .. Len(Received) - next : Unread[i] = Received[next + i].packet
<1> DEFINE m == Len(Received) - next
<1>1. m \in Nat /\ next \in Nat /\ Len(Received) = next + m
      /\ Received \in Seq([frame : Frames, packet : PacketType])
  BY NextInQueue
<1>2. ASSUME NEW i \in 1 .. m
      PROVE  Received[next + i].packet \in PacketType
  <2>1. next + i \in 1 .. Len(Received)
    BY <1>1
  <2>2. Received[next + i] \in [frame : Frames, packet : PacketType]
    BY <1>1, <2>1, SeqElement
  <2> QED BY <2>2
<1>3. Unread = [i \in 1 .. m |-> Received[next + i].packet]
  BY DEF Unread
<1> HIDE DEF m
<1>4. Unread \in [1 .. m -> PacketType]
  BY <1>2, <1>3
<1>5. Unread \in Seq(PacketType) /\ Len(Unread) = m
  BY <1>1, <1>4
<1>6. \A i \in 1 .. m : Unread[i] = Received[next + i].packet
  BY <1>3
<1> QED BY <1>5, <1>6 DEF m

LEMMA QueueType ==
  ASSUME ListenerInv, StreamTyped
  PROVE  Queue \in Seq(PacketType)
BY UnreadShape DEF Queue, StreamTyped

\* Rings at rest have nothing to read.
LEMMA QuietQueue == ListenerInv /\ StreamTyped /\ ~Mapped => Unread = <<>> /\ next = 0
<1> SUFFICES ASSUME ListenerInv, StreamTyped, ~Mapped
             PROVE  Unread = <<>> /\ next = 0
  OBVIOUS
<1>1. Received = <<>>
  BY QuietRings DEF ListenerInv, RingInv
<1>2. next = 0
  BY BatchMapped DEF ListenerInv, BatchInv
<1>3. Len(Unread) = 0 /\ Unread \in Seq(PacketType)
  BY <1>1, <1>2, UnreadShape
<1> QED BY <1>2, <1>3

\* With an AF_PACKET socket the rings are, and without one it holds nothing.
LEMMA OnePath ==
  ASSUME ListenerInv
  PROVE  (sk => ~Mapped) /\ (~sk => socket = <<>>)
BY DEF ListenerInv, ContextInv, HeldInv, PathInv, Mapped

\* The queue is what the kernel holds for the listener.
LEMMA QueueWaiting ==
  ASSUME ListenerInv, StreamTyped
  PROVE  Waiting = {Queue[i] : i \in 1 .. Len(Queue)}
<1> DEFINE inRing == {umem[Entry(rx, i)] : i \in recycled + next .. Count(rx) - 1}
           inSocket == {socket[i] : i \in DOMAIN socket}
<1>1. Waiting = inRing \cup inSocket
  BY DEF Waiting
<1>2. CASE sk
  <2>1. inRing = {}
    <3>1. ~Mapped
      BY <1>2, OnePath
    <3>2. Count(rx) = 0 /\ recycled = 0 /\ next = 0
      BY <3>1, QuietRings, QuietQueue DEF ListenerInv, RingInv, Quiet
    <3> QED BY <3>2
  <2>2. DOMAIN socket = 1 .. Len(socket)
    BY DEF StreamTyped
  <2> QED BY <1>1, <1>2, <2>1, <2>2 DEF Queue
<1>3. CASE ~sk
  <2>1. inSocket = {}
    BY <1>3, OnePath
  <2> DEFINE m == Len(Received) - next
  <2>2. /\ m \in Nat /\ next \in Nat /\ recycled \in Nat
        /\ Count(rx) = recycled + next + m
    BY NextInQueue
  <2>3. Len(Unread) = m /\ \A i \in 1 .. m : Unread[i] = Received[next + i].packet
    BY UnreadShape
  <2>4. CASE ~Mapped
    <3>1. Count(rx) = 0 /\ recycled = 0 /\ next = 0 /\ Unread = <<>>
      BY <2>4, QuietRings, QuietQueue DEF ListenerInv, RingInv, Quiet
    <3>2. inRing = {} /\ {Unread[i] : i \in 1 .. Len(Unread)} = {}
      BY <3>1
    <3> QED BY <1>1, <1>3, <2>1, <3>2 DEF Queue
  <2>5. CASE Mapped
    <3>1. \A i \in 1 .. Count(rx) - recycled :
            Received[i] = [frame |-> Entry(rx, recycled + i - 1),
                           packet |-> umem[Entry(rx, recycled + i - 1)]]
      BY <2>5, ReceivedShape DEF ListenerInv, RingInv, StreamTyped
    <3> HIDE DEF m
    <3>2. ASSUME NEW i \in 1 .. m
          PROVE  /\ recycled + next + i - 1 \in recycled + next .. Count(rx) - 1
                 /\ Unread[i] = umem[Entry(rx, recycled + next + i - 1)]
      <4>1. /\ next + i \in 1 .. Count(rx) - recycled
            /\ recycled + (next + i) - 1 = recycled + next + i - 1
        BY <2>2
      <4>2. Received[next + i].packet = umem[Entry(rx, recycled + (next + i) - 1)]
        <5> DEFINE j == next + i
        <5>1. j \in 1 .. Count(rx) - recycled
          BY <4>1
        <5> HIDE DEF j
        <5>2. Received[j] = [frame |-> Entry(rx, recycled + j - 1),
                             packet |-> umem[Entry(rx, recycled + j - 1)]]
          BY <3>1, <5>1
        <5> QED BY <5>2 DEF j
      <4>3. recycled + next + i - 1 \in recycled + next .. Count(rx) - 1
        BY <2>2
      <4>4. Unread[i] = Received[next + i].packet
        BY <2>3
      <4> QED BY <4>1, <4>2, <4>3, <4>4
    <3>3. ASSUME NEW j \in recycled + next .. Count(rx) - 1
          PROVE  \E i \in 1 .. m : j = recycled + next + i - 1
      <4>1. j - recycled - next + 1 \in 1 .. m
            /\ j = recycled + next + (j - recycled - next + 1) - 1
        BY <2>2
      <4> QED BY <4>1
    <3>4. inRing = {Unread[i] : i \in 1 .. m}
      <4>1. \A i \in 1 .. m : Unread[i] \in inRing
        BY <3>2
      <4>2. ASSUME NEW j \in recycled + next .. Count(rx) - 1
            PROVE  \E i \in 1 .. m : umem[Entry(rx, j)] = Unread[i]
        <5>1. PICK i \in 1 .. m : j = recycled + next + i - 1
          BY <3>3
        <5>2. Unread[i] = umem[Entry(rx, recycled + next + i - 1)]
          BY <3>2
        <5> QED BY <5>1, <5>2
      <4> QED BY <4>1, <4>2
    <3> QED BY <1>1, <1>3, <2>1, <2>3, <3>4 DEF Queue
  <2> QED BY <2>4, <2>5
<1> QED BY <1>2, <1>3

\* What a step may do to the queue and to the account of the playback.
Idle == UNCHANGED <<Queue, streamVars, playVars, missing, cut>>

Gone ==
  /\ ~InLoop
  /\ Queue' = <<>>
  /\ UNCHANGED <<streamVars, playVars, missing, cut>>

Takes(pdu) ==
  /\ InLoop
  /\ Queue # <<>> /\ pdu = Head(Queue) /\ pdu = InHand
  /\ Queue' = Tail(Queue)
  /\ ProcessPdu(pdu, now) /\ Account(pdu)

Drops(pdu) ==
  /\ net # <<>> /\ pdu = Head(net)
  /\ net' = Tail(net)
  /\ MissingWith(pdu)
  /\ faults' \in {faults, faults + 1}
  /\ UNCHANGED <<Queue, now, captured, playVars, cut>>

Arrives(pdu) ==
  /\ net # <<>> /\ pdu = Head(net)
  /\ net' = Tail(net)
  /\ Queue' = Append(Queue, pdu)
  /\ UNCHANGED <<now, captured, faults, playVars, missing, cut>>

StreamMoves ==
  \/ Idle \/ Gone
  \/ \E pdu : (Takes(pdu) /\ UNCHANGED streamVars) \/ Drops(pdu) \/ Arrives(pdu)
  \/ /\ Tick \/ Send \/ Skip \/ Hold \/ \E odd \in StrayOdds : Stray(odd)
     /\ UNCHANGED Queue
  \/ LeaveLoop /\ missing' = 0 /\ cut' = 0 /\ UNCHANGED <<Queue, streamVars>>

\* The queue is as it was.
LEMMA SameQueue ==
  ASSUME UNCHANGED <<sk, socket, next, Received>>
  PROVE  UNCHANGED Queue
BY DEF Queue, Unread

\* Rings that are, as far as the queue goes, as they were.
LEMMA SameReceived ==
  ASSUME UNCHANGED ringVars
  PROVE  UNCHANGED Received
BY DEF ringVars, Received

\* What bring-up and tear-down do to it.
LEMMA ContextQueue ==
  ASSUME ListenerInv, StreamTyped, (ListenerInv /\ StreamTyped)', Bring \/ TearDown,
         UNCHANGED <<listenerVars, streamVars, missing, cut>>
  PROVE  Idle \/ Gone
<1>1. UNCHANGED <<sk, socket, next, playVars>>
  BY DEF listenerVars, playVars
<1>2. CASE UNCHANGED ringVars
  BY <1>1, <1>2, SameReceived, SameQueue DEF Idle
<1>3. CASE Create /\ ~ UNCHANGED ringVars
  <2>1. ~Mapped /\ RingsPopulated
    <3>1. PICK n \in 0 .. 9 :
            /\ held = Done(n)
            /\ IF n = 7 THEN RingsPopulated ELSE UNCHANGED ringVars
      BY <1>3, CreateMoves DEF ListenerInv
    <3>2. n = 7 /\ n \in 0 .. 10
      BY <1>3, <3>1
    <3> QED BY <1>3, <3>1, <3>2, DoneSteps DEF Mapped
  <2>2. Quiet
    BY <2>1 DEF ListenerInv, RingInv
  <2>3. Received = <<>> /\ Received' = <<>>
    BY <2>1, <2>2, QuietRings, PopulatedStep
  <2> QED BY <1>1, <2>3, SameQueue DEF Idle
<1>4. CASE Destroy /\ ~ UNCHANGED ringVars
  <2>1. ~Mapped' /\ context = "destroy"
    BY <1>4, DestroyMoves DEF ListenerInv, Mapped, OfSocket
  <2>2. ~sk'
    BY <1>1, <2>1 DEF ListenerInv, PathInv
  <2>3. (ListenerInv /\ StreamTyped /\ ~Mapped => Unread = <<>>)'
    BY QuietQueue, PTL
  <2>4. Unread' = <<>>
    BY <2>1, <2>3
  <2>5. ~InLoop
    BY DEF Bring, TearDown, InLoop
  <2> QED BY <1>1, <2>2, <2>4, <2>5 DEF Queue, Gone
<1> QED BY <1>2, <1>3, <1>4 DEF Bring, TearDown, CreateFails, AnswerLost, Destroyed

\* What the listener's own steps do.
LEMMA ReleaseQueue ==
  ASSUME ListenerInv, StreamTyped, (ListenerInv /\ StreamTyped)', ReleaseBatch
  PROVE  UNCHANGED Queue
<1>1. /\ main = "batch" /\ next = rcvd /\ Recycle(rcvd) /\ next' = 0
      /\ UNCHANGED <<sk, socket>>
  BY DEF ReleaseBatch
<1>2. Mapped /\ IInv /\ rcvd \in 1 .. Count(rx) /\ umem \in [Frames -> PacketType]
  BY <1>1, BatchMapped DEF ListenerInv, BatchInv, StreamTyped
<1>3. Releases(rcvd) /\ rcvd \in 1 .. Len(Received)
  BY <1>1, <1>2, RecyclePool
<1> DEFINE m == Len(Received) - next
           S == [frame : Frames, packet : PacketType]
<1>4. Received \in Seq(S) /\ m \in Nat /\ next \in Nat /\ Len(Received) = next + m
  BY NextInQueue
<1>5. Received' = SubSeq(Received, next + 1, Len(Received))
  BY <1>1, <1>3 DEF Releases
<1>6. Len(Received') = m /\ \A i \in 1 .. m : Received'[i] = Received[next + i]
  <2>1. next \in 0 .. Len(Received)
    BY <1>4
  <2> HIDE DEF S
  <2> QED BY <1>4, <1>5, <2>1, SubSeqShape
<1>7. Unread = [i \in 1 .. m |-> Received[next + i].packet]
  BY DEF Unread
<1>8. Unread' = [i \in 1 .. m |-> Received'[i].packet]
  <2>1. Len(Received') - next' = m /\ \A i \in 1 .. m : next' + i = i
    BY <1>1, <1>4, <1>6
  <2> QED BY <2>1 DEF Unread
<1> HIDE DEF m
<1>9. Unread' = Unread
  BY <1>6, <1>7, <1>8
<1> QED BY <1>1, <1>9 DEF Queue

LEMMA ProcessQueue ==
  ASSUME ListenerInv, StreamTyped, (ListenerInv /\ StreamTyped)', Process
  PROVE  \E pdu : Takes(pdu)
<1>1. CASE ReceiveDatagram(now) /\ Account(Head(socket))
  <2>1. /\ sk /\ sk' = sk /\ socket # <<>> /\ socket' = Tail(socket) /\ InLoop
        /\ ProcessPdu(Head(socket), now)
    BY <1>1 DEF ReceiveDatagram, InLoop
  <2>2. ~use_xdp
    BY <2>1 DEF ListenerInv, PathInv
  <2> QED BY <1>1, <2>1, <2>2 DEF Queue, Takes, InHand
<1>2. CASE ProcessNext(now) /\ Account(RxPacket(next))
  <2>1. /\ main = "batch" /\ InLoop /\ use_xdp /\ ~sk /\ ~sk' /\ next < rcvd
        /\ next' = next + 1 /\ UNCHANGED ringVars /\ ProcessPdu(RxPacket(next), now)
    BY <1>2 DEF ProcessNext, InLoop, ListenerInv, PathInv
  <2>2. UNCHANGED Received
    BY <2>1, SameReceived
  <2> DEFINE m == Len(Received) - next
             S == [frame : Frames, packet : PacketType]
  <2>3. /\ m \in Nat /\ next \in Nat /\ Len(Received) = next + m
        /\ recycled = 0 /\ Len(Received) = Count(rx) - recycled
        /\ rcvd <= Count(rx) /\ rcvd \in Nat /\ Count(rx) \in Nat
    BY <2>1, NextInQueue DEF ListenerInv, BatchInv
  <2>4. m >= 1
    BY <2>1, <2>3
  <2>5. /\ Unread \in Seq(PacketType) /\ Len(Unread) = m
        /\ \A i \in 1 .. m : Unread[i] = Received[next + i].packet
    BY UnreadShape
  <2>6. /\ Unread' \in Seq(PacketType) /\ Len(Unread') = m - 1
        /\ \A i \in 1 .. m - 1 : Unread'[i] = Received[next + 1 + i].packet
    <3>1. (ListenerInv /\ StreamTyped
             => /\ Unread \in Seq(PacketType)
                /\ Len(Unread) = Len(Received) - next
                /\ \A i \in 1 .. Len(Received) - next :
                     Unread[i] = Received[next + i].packet)'
      BY UnreadShape, PTL
    <3>2. Len(Received') - next' = m - 1
      BY <2>1, <2>2, <2>3
    <3> QED BY <2>1, <2>2, <3>1, <3>2
  <2> HIDE DEF m
  <2>7. Head(Unread) = RxPacket(next)
    <3>1. IInv /\ umem \in [Frames -> PacketType]
      BY <2>1, BatchMapped DEF StreamTyped
    <3>2. next + 1 \in 1 .. Count(rx) - recycled
      BY <2>3, <2>4
    <3>3. Received[next + 1].packet = umem[Entry(rx, recycled + (next + 1) - 1)]
      <4> DEFINE j == next + 1
      <4>1. j \in 1 .. Count(rx) - recycled
        BY <3>2
      <4> HIDE DEF j
      <4>2. Received[j] = [frame |-> Entry(rx, recycled + j - 1),
                           packet |-> umem[Entry(rx, recycled + j - 1)]]
        BY <3>1, <4>1, ReceivedShape
      <4> QED BY <4>2 DEF j
    <3>4. recycled + (next + 1) - 1 = next
      BY <2>3
    <3>5. Unread[1] = Received[next + 1].packet
      BY <2>4, <2>5
    <3>6. Head(Unread) = Unread[1]
      BY <2>4, <2>5
    <3> QED BY <3>3, <3>4, <3>5, <3>6 DEF RxPacket
  <2>8. Unread # <<>> /\ Unread' = Tail(Unread)
    <3>1. Unread # <<>>
      BY <2>4, <2>5
    <3>2. /\ Tail(Unread) \in Seq(PacketType) /\ Len(Tail(Unread)) = m - 1
          /\ \A i \in 1 .. m - 1 : Tail(Unread)[i] = Unread[i + 1]
      BY <2>3, <2>4, <2>5, <3>1
    <3>3. ASSUME NEW i \in 1 .. m - 1
          PROVE  Unread'[i] = Tail(Unread)[i]
      <4>1. i + 1 \in 1 .. m /\ next + (i + 1) = next + 1 + i
        BY <2>3
      <4>2. Unread[i + 1] = Received[next + (i + 1)].packet
        BY <2>5, <4>1
      <4> QED BY <2>6, <3>2, <4>1, <4>2
    <3>4. Unread' = Tail(Unread)
      <4>1. Len(Unread') = Len(Tail(Unread))
        BY <2>6, <3>2
      <4>2. \A i \in 1 .. Len(Unread') : Unread'[i] = Tail(Unread)[i]
        BY <2>6, <3>3
      <4> QED BY <2>6, <3>2, <4>1, <4>2, SeqEqual
    <3> QED BY <3>1, <3>4
  <2> QED BY <1>2, <2>1, <2>7, <2>8 DEF Queue, Takes, InHand
<1> QED BY <1>1, <1>2 DEF Process

\* A packet that gets to the rings is behind the others.
LEMMA DeliverQueue ==
  ASSUME ListenerInv, StreamTyped, (ListenerInv /\ StreamTyped)', ArriveInRing
  PROVE  Queue' = Append(Queue, Head(net))
<1>1. /\ net # <<>> /\ Deliver(Head(net)) /\ nic # {}
      /\ UNCHANGED <<sk, socket, next, held>>
  BY DEF ArriveInRing, Deliver, Room, listenerVars, contextVars
<1>2. Mapped /\ IInv /\ umem \in [Frames -> PacketType] /\ ~sk
  <2>1. Mapped
    BY <1>1 DEF ListenerInv, RingInv, ContextInv, HeldInv, Mapped
  <2> QED BY <2>1, OnePath DEF ListenerInv, RingInv, StreamTyped
<1> DEFINE p == Head(net)
           m == Len(Received) - next
           S == [frame : Frames, packet : PacketType]
<1>3. p \in PacketType
  BY <1>1, HeadTail DEF StreamTyped
<1>4. PICK f \in Free : Received' = Append(Received, [frame |-> f, packet |-> p])
  <2>1. Receives(p)
    BY <1>1, <1>2, <1>3, DeliverPool
  <2> QED BY <2>1 DEF Receives
<1>5. /\ m \in Nat /\ next \in Nat /\ Len(Received) = next + m /\ Received \in Seq(S)
      /\ [frame |-> f, packet |-> p] \in S
  BY <1>2, <1>3, NextInQueue, FreeType
<1> DEFINE r == [frame |-> f, packet |-> p]
<1>6. r.packet = p
  OBVIOUS
<1> HIDE DEF p, S, r
<1>7. /\ Len(Received') = next + m + 1 /\ Received'[next + m + 1] = r
      /\ \A i \in 1 .. next + m : Received'[i] = Received[i]
  BY <1>4, <1>5 DEF r
<1>8. /\ Unread \in Seq(PacketType) /\ Len(Unread) = m
      /\ \A i \in 1 .. m : Unread[i] = Received[next + i].packet
  BY UnreadShape
<1>9. /\ Unread' \in Seq(PacketType) /\ Len(Unread') = m + 1
      /\ \A i \in 1 .. m + 1 : Unread'[i] = Received'[next + i].packet
  <2>1. (ListenerInv /\ StreamTyped
           => /\ Unread \in Seq(PacketType)
              /\ Len(Unread) = Len(Received) - next
              /\ \A i \in 1 .. Len(Received) - next :
                   Unread[i] = Received[next + i].packet)'
    BY UnreadShape, PTL
  <2>2. Len(Received') - next' = m + 1
    BY <1>1, <1>5, <1>7
  <2> QED BY <1>1, <2>1, <2>2
<1> HIDE DEF m
<1>10. ASSUME NEW i \in 1 .. m
       PROVE  Unread'[i] = Unread[i]
  <2>1. next + i \in 1 .. next + m /\ i \in 1 .. m + 1
    BY <1>5
  <2> QED BY <1>7, <1>8, <1>9, <2>1
<1>11. Unread'[m + 1] = p
  <2>1. m + 1 \in 1 .. m + 1 /\ next + (m + 1) = next + m + 1
    BY <1>5
  <2> QED BY <1>6, <1>7, <1>9, <2>1
<1>12. Unread' = Append(Unread, p)
  <2>1. /\ Append(Unread, p) \in Seq(PacketType) /\ Len(Append(Unread, p)) = m + 1
        /\ Append(Unread, p)[m + 1] = p
        /\ \A i \in 1 .. m : Append(Unread, p)[i] = Unread[i]
    BY <1>3, <1>5, <1>8 DEF p
  <2>2. \A i \in 1 .. m + 1 : Unread'[i] = Append(Unread, p)[i]
    BY <1>5, <1>10, <1>11, <2>1
  <2> QED BY <1>5, <1>9, <2>1, <2>2
<1> QED BY <1>1, <1>2, <1>12 DEF Queue, p

\* Every step of the program, as what it does to the queue.
LEMMA StreamStep ==
  ASSUME ListenerInv, StreamTyped, (ListenerInv /\ StreamTyped)', [Next]_vars
  PROVE  StreamMoves
<1>0. (ListenerInv /\ StreamTyped /\ ~Mapped => Unread = <<>> /\ next = 0)'
  BY QuietQueue, PTL
<1> DEFINE Rest == UNCHANGED <<streamVars, playVars, missing, cut>>
<1>1. ASSUME UNCHANGED <<ringVars, sk, socket, next>>
      PROVE  UNCHANGED Queue
  BY <1>1, SameReceived, SameQueue
<1>2. CASE UNCHANGED vars
  <2>1. UNCHANGED Queue
    BY <1>1, <1>2 DEF vars, listenerVars
  <2> QED BY <1>2, <2>1 DEF vars, listenerVars, streamVars, playVars, StreamMoves, Idle
<1>3. CASE (Bring \/ TearDown) /\ UNCHANGED <<listenerVars, streamVars, missing, cut>>
  BY <1>3, ContextQueue DEF StreamMoves
<1>4. CASE Setup /\ UNCHANGED <<streamVars, missing, cut>>
  <2>1. CASE Steer \/ NoQueue \/ Opened \/ NotOpened
    <3>1. UNCHANGED <<ringVars, sk, socket, next, playVars>>
      BY <2>1 DEF Steer, NoQueue, Opened, NotOpened, BeginCreate
    <3> QED BY <1>1, <1>4, <3>1 DEF StreamMoves, Idle
  <2>2. CASE OpenSocket
    <3>1. main = "packet" /\ UNCHANGED <<contextVars, ringVars, socket, next, playVars>>
      BY <2>2 DEF OpenSocket
    <3>2. ~sk /\ context = "none"
      BY <3>1 DEF ListenerInv, PathInv
    <3>3. ~Mapped /\ socket = <<>>
      BY <3>2, OnePath DEF ListenerInv, ContextInv, HeldInv, Mapped
    <3>4. Unread = <<>> /\ Unread' = <<>>
      <4>1. ~Mapped'
        BY <3>1, <3>3 DEF contextVars, Mapped
      <4> QED BY <1>0, <3>3, <4>1, QuietQueue
    <3>5. UNCHANGED Queue
      BY <3>1, <3>3, <3>4 DEF Queue
    <3> QED BY <1>4, <3>1, <3>5 DEF StreamMoves, Idle
  <2> QED BY <1>4, <2>1, <2>2 DEF Setup
<1>5. CASE (PollRings \/ Signal) /\ UNCHANGED <<streamVars, missing, cut>>
  <2>1. UNCHANGED <<ringVars, sk, socket, playVars>>
    BY <1>5 DEF PollRings, Signal
  <2>2. next' = next
    BY <1>5 DEF PollRings, Signal, ListenerInv, BatchInv
  <2> QED BY <1>1, <1>5, <2>1, <2>2 DEF StreamMoves, Idle
<1>6. CASE ReleaseBatch /\ UNCHANGED <<streamVars, missing, cut>>
  <2>1. UNCHANGED playVars
    BY <1>6 DEF ReleaseBatch
  <2> QED BY <1>6, <2>1, ReleaseQueue DEF StreamMoves, Idle
<1>7. CASE ReleaseRx /\ UNCHANGED <<streamVars, missing, cut>>
  <2>1. AdvanceConsumer /\ UNCHANGED <<sk, socket, next, playVars>>
    BY <1>7 DEF ReleaseRx, listenerVars, playVars
  <2>2. IInv
    BY <2>1 DEF ListenerInv, RingInv, AdvanceConsumer, Quiet
  <2> QED BY <1>7, <2>1, <2>2, AdvancePool, SameQueue DEF StreamMoves, Idle
<1>8. CASE (Finish \/ EarlySignal) /\ UNCHANGED <<streamVars, missing, cut>>
  <2>1. ~Mapped' /\ ~sk' /\ UNCHANGED playVars
    <3>1. CASE Finish
      BY <3>1 DEF Finish, contextVars, ListenerInv, ContextInv, HeldInv, Mapped
    <3>2. CASE EarlySignal
      BY <3>2 DEF EarlySignal, Die, ListenerInv, PathInv, Mapped
    <3> QED BY <1>8, <3>1, <3>2
  <2>2. ~InLoop
    BY <1>8 DEF Finish, EarlySignal, InLoop
  <2> QED BY <1>0, <1>8, <2>1, <2>2 DEF Queue, StreamMoves, Gone
<1>9. CASE LeaveLoop /\ missing' = 0 /\ cut' = 0 /\ UNCHANGED streamVars
  <2>1. UNCHANGED <<ringVars, sk, socket, next>>
    BY <1>9 DEF LeaveLoop, BeginDestroy
  <2> QED BY <1>1, <1>9, <2>1 DEF StreamMoves
<1>10. CASE Process /\ UNCHANGED streamVars
  BY <1>10, ProcessQueue DEF StreamMoves
<1>11. CASE Tick \/ Send \/ Skip \/ Hold \/ \E odd \in StrayOdds : Stray(odd)
  <2>1. UNCHANGED <<ringVars, sk, socket, next>>
    BY <1>11 DEF Tick, Send, Skip, Hold, Stray, listenerVars
  <2> QED BY <1>1, <1>11, <2>1 DEF StreamMoves
<1>12. CASE Lose \/ NoPlace
  <2>1. UNCHANGED <<ringVars, sk, socket, next, playVars>>
    BY <1>12 DEF Lose, NoPlace, listenerVars, playVars
  <2>2. Drops(Head(net))
    BY <1>1, <1>12, <2>1 DEF Lose, NoPlace, Fault, Drops
  <2> QED BY <2>2 DEF StreamMoves
<1>13. CASE TakeFrame
  <2>1. Take /\ UNCHANGED <<sk, socket, next, playVars, streamVars, missing, cut>>
    BY <1>13 DEF TakeFrame, listenerVars, playVars
  <2>2. IInv
    BY <1>13 DEF TakeFrame, ListenerInv, RingInv, ContextInv, HeldInv, Mapped
  <2> QED BY <2>1, <2>2, TakePool, SameQueue DEF StreamMoves, Idle
<1>14. CASE ArriveInRing
  <2>1. UNCHANGED playVars
    BY <1>14 DEF ArriveInRing, listenerVars, playVars
  <2>2. Arrives(Head(net))
    BY <1>14, <2>1, DeliverQueue DEF ArriveInRing, Arrives
  <2> QED BY <2>2 DEF StreamMoves
<1>15. CASE ArriveInStack
  <2>1. UNCHANGED <<ringVars, sk, next, playVars, now, captured, faults, cut>>
    BY <1>15 DEF ArriveInStack
  <2>2. CASE sk
    <3>1. Queue' = Append(Queue, Head(net))
      BY <1>15, <2>1, <2>2 DEF ArriveInStack, Queue
    <3>2. Arrives(Head(net))
      BY <1>15, <2>1, <2>2, <3>1 DEF ArriveInStack, Arrives
    <3> QED BY <3>2 DEF StreamMoves
  <2>3. CASE ~sk
    <3>1. UNCHANGED Queue
      BY <1>1, <1>15, <2>1, <2>3 DEF ArriveInStack
    <3>2. Drops(Head(net))
      BY <1>15, <2>1, <2>3, <3>1 DEF ArriveInStack, Drops
    <3> QED BY <3>2 DEF StreamMoves
  <2> QED BY <2>2, <2>3
<1> QED BY <1>2, <1>3, <1>4, <1>5, <1>6, <1>7, <1>8, <1>9, <1>10, <1>11, <1>12, <1>13,
           <1>14, <1>15 DEF Next

-----------------------------------------------------------------------------
(* The gate of process_pdu().                                              *)

\* A product grows with its factor.
LEMMA Grows ==
  ASSUME NEW c \in Nat, NEW a \in Nat, NEW b \in Nat, a <= b
  PROVE  c * a \in Nat /\ c * b \in Nat /\ c * a <= c * b
<1>1. b - a \in Nat /\ c * (b - a) = c * b - c * a
  OBVIOUS
<1>2. \A x, y \in Nat : x * y \in Nat
  OBVIOUS
<1>3. c * a \in Nat /\ c * b \in Nat /\ c * (b - a) \in Nat
  BY <1>1, <1>2
<1> QED BY <1>1, <1>3

\* A multiple of the modulus that is less than the modulus.
LEMMA NoMultiple ==
  ASSUME NEW W \in Nat \ {0}, NEW j \in Int, -W < W * j, W * j < W
  PROVE  j = 0
<1>1. \A x, y \in Nat : x * y \in Nat
  OBVIOUS
<1>2. CASE j >= 1
  <2>1. j - 1 \in Nat /\ W * j = W * (j - 1) + W
    BY <1>2
  <2>2. W * (j - 1) \in Nat
    BY <1>1, <2>1
  <2> QED BY <2>1, <2>2
<1>3. CASE j <= -1
  <2>1. -j - 1 \in Nat /\ W * (-j - 1) = -(W * j) - W
    BY <1>3
  <2>2. W * (-j - 1) \in Nat
    BY <1>1, <2>1
  <2>3. W * j \in Int
    OBVIOUS
  <2> QED BY <2>1, <2>2, <2>3
<1> QED BY <1>2, <1>3

\* get_presentation_time() is the first time with these low bits from its
\* clock on.
LEMMA Rebuilds ==
  ASSUME NEW ptime \in Nat, NEW read \in Nat
  PROVE  LET rebuilt == PresentationTime(ptime % Wrap, read)
         IN /\ rebuilt \in Int /\ read <= rebuilt /\ rebuilt < read + Wrap
            /\ \E k \in Int : rebuilt = ptime + Wrap * k
<1> DEFINE a == read \div Wrap
           r == read % Wrap
           b == ptime \div Wrap
           q == ptime % Wrap
           W == Wrap
<1>1. /\ W \in Nat \ {0} /\ a \in Int /\ b \in Int /\ r \in 0 .. W - 1 /\ q \in 0 .. W - 1
      /\ read = W * a + r /\ ptime = W * b + q
  BY Numbers, DivMod
<1>2. PresentationTime(q, read)
        = IF read - r + q < read THEN read - r + q + W ELSE read - r + q
  BY DEF PresentationTime
<1> HIDE DEF a, r, b, q, W
<1>3. W * (a - b) = W * a - W * b /\ W * (a - b + 1) = W * a - W * b + W
      /\ W * a \in Int /\ W * b \in Int /\ a - b \in Int /\ a - b + 1 \in Int
  BY <1>1
<1>4. /\ read - r + q = ptime + W * (a - b)
      /\ read - r + q + W = ptime + W * (a - b + 1)
  BY <1>1, <1>3
<1>5. \E k \in Int : PresentationTime(q, read) = ptime + W * k
  BY <1>2, <1>3, <1>4
<1>6. read - r + q \in Int /\ read - r + q + W \in Int /\ read < read - r + q + W
      /\ read - r + q < read + W
  BY <1>1
<1>7. /\ PresentationTime(q, read) \in Int /\ read <= PresentationTime(q, read)
      /\ PresentationTime(q, read) < read + W
  <2>1. CASE read - r + q < read
    BY <1>1, <1>2, <1>6, <2>1
  <2>2. CASE ~(read - r + q < read)
    BY <1>1, <1>2, <1>6, <2>2
  <2> QED BY <2>1, <2>2
<1> QED BY <1>5, <1>7 DEF q, W

\* What process_pdu() makes of it is the time that was sent, if that is within
\* half a wrap of its clock.
LEMMA CorrectedIsSent ==
  ASSUME NEW ptime \in Nat, NEW clock \in Nat, NEW read \in {clock - 1, clock} \cap Nat,
         ptime - clock < Wrap \div 2, clock - ptime + 1 < Wrap \div 2
  PROVE  Corrected(PresentationTime(ptime % Wrap, read), clock) = ptime
<1> DEFINE half == Wrap \div 2
           rebuilt == PresentationTime(ptime % Wrap, read)
           W == Wrap
<1>1. W \in Nat \ {0} /\ half \in Int /\ 2 * half <= W
  <2>1. Wrap \in Nat \ {0}
    BY Numbers
  <2> QED BY <2>1, SMT
<1>2. /\ rebuilt \in Int /\ read <= rebuilt /\ rebuilt < read + W
      /\ \E k \in Int : rebuilt = ptime + W * k
  BY Rebuilds
<1>3. Corrected(rebuilt, clock)
        = CASE rebuilt - clock > half    -> rebuilt - W
            [] rebuilt - clock < -half -> rebuilt + W
            [] OTHER                     -> rebuilt
  BY DEF Corrected
<1>4. ptime - clock < half /\ clock - ptime + 1 < half
  OBVIOUS
<1> HIDE DEF half, rebuilt, W
<1>5. PICK k \in Int : rebuilt = ptime + W * k
  BY <1>2
<1>6. W * k \in Int /\ W * (k - 1) = W * k - W /\ W * (k - 1) \in Int
  BY <1>1
<1>7. half >= 1 /\ ~(rebuilt - clock < -half)
  BY <1>1, <1>2, <1>4
<1>8. CASE rebuilt - clock > half
  <2>1. rebuilt - W = ptime + W * (k - 1)
    BY <1>1, <1>2, <1>5, <1>6
  <2>2. rebuilt <= clock + W - 1 /\ rebuilt - W > clock + half - W
    BY <1>1, <1>2, <1>8
  <2>3. -W < W * (k - 1) /\ W * (k - 1) < W
    BY <1>1, <1>2, <1>4, <1>6, <2>1, <2>2
  <2>4. k - 1 = 0
    <3>1. k - 1 \in Int
      OBVIOUS
    <3> QED BY <1>1, <2>3, <3>1, NoMultiple
  <2>5. k = 1 /\ rebuilt - W = ptime
    BY <1>1, <1>5, <2>4
  <2> QED BY <1>3, <1>7, <1>8, <2>5 DEF rebuilt
<1>9. CASE ~(rebuilt - clock > half)
  <2>1. -W < W * k /\ W * k < W
    BY <1>1, <1>2, <1>4, <1>5, <1>6, <1>9
  <2>2. k = 0
    BY <1>1, <2>1, NoMultiple
  <2>3. rebuilt = ptime
    BY <1>1, <1>5, <2>2
  <2> QED BY <1>3, <1>7, <1>9, <2>3 DEF rebuilt
<1> QED BY <1>8, <1>9


\* What a sequence holds.
Elements(s) == {s[i] : i \in 1 .. Len(s)}

LEMMA ElementsShape ==
  ASSUME NEW P, NEW s \in Seq(P)
  PROVE  /\ Elements(s) \subseteq P
         /\ \A p \in Elements(s) : \E i \in 1 .. Len(s) : p = s[i]
BY DEF Elements

LEMMA HeadElements ==
  ASSUME NEW P, NEW s \in Seq(P), s # <<>>
  PROVE  Head(s) \in Elements(s) /\ Elements(s) = {Head(s)} \cup Elements(Tail(s))
<1> DEFINE n == Len(s)
           r == Tail(s)
<1>1. n \in Nat \ {0} /\ Head(s) = s[1] /\ Len(r) = n - 1
      /\ \A i \in 1 .. n - 1 : r[i] = s[i + 1]
  OBVIOUS
<1> HIDE DEF n, r
<1>2. \A i \in 1 .. n : i = 1 \/ (i - 1 \in 1 .. n - 1 /\ (i - 1) + 1 = i)
  BY <1>1
<1>3. \A i \in 1 .. n - 1 : i + 1 \in 1 .. n
  BY <1>1
<1>4. Elements(s) \subseteq {Head(s)} \cup Elements(r)
  <2> SUFFICES ASSUME NEW i \in 1 .. n
               PROVE  s[i] \in {Head(s)} \cup Elements(r)
    BY DEF Elements, n
  <2>1. CASE i = 1
    BY <1>1, <2>1
  <2>2. CASE i - 1 \in 1 .. n - 1 /\ (i - 1) + 1 = i
    <3>1. r[i - 1] = s[i]
      BY <1>1, <2>2
    <3> QED BY <1>1, <2>2, <3>1 DEF Elements
  <2> QED BY <1>2, <2>1, <2>2
<1>5. Elements(r) \subseteq Elements(s)
  <2> SUFFICES ASSUME NEW i \in 1 .. n - 1
               PROVE  r[i] \in Elements(s)
    BY <1>1 DEF Elements
  <2>1. r[i] = s[i + 1] /\ i + 1 \in 1 .. n
    BY <1>1, <1>3
  <2> QED BY <2>1 DEF Elements, n
<1>6. Head(s) \in Elements(s)
  <2>1. 1 \in 1 .. n
    BY <1>1
  <2> QED BY <1>1, <2>1 DEF Elements, n
<1> QED BY <1>4, <1>5, <1>6 DEF r

LEMMA AppendElements ==
  ASSUME NEW P, NEW s \in Seq(P), NEW p \in P
  PROVE  Elements(Append(s, p)) = Elements(s) \cup {p}
<1> DEFINE n == Len(s)
           r == Append(s, p)
<1>1. n \in Nat /\ Len(r) = n + 1 /\ r[n + 1] = p /\ \A i \in 1 .. n : r[i] = s[i]
  OBVIOUS
<1> HIDE DEF n, r
<1>2. 1 .. n + 1 = (1 .. n) \cup {n + 1}
  BY <1>1
<1>3. Elements(r) = {r[i] : i \in 1 .. n + 1}
  BY <1>1 DEF Elements
<1> QED BY <1>1, <1>2, <1>3 DEF Elements, n, r

LEMMA NoElements == Elements(<<>>) = {}
BY DEF Elements

\* The packets on the way to the listener.
Pending == Elements(Queue) \cup Elements(net)

\* A packet is sent.
Puts(odd) ==
  /\ (Send /\ odd = StreamOdd) \/ (Stray(odd) /\ odd \in StrayOdds)
  /\ Queue' = Queue
  /\ Pending' = Pending \cup {Pdu(odd, now + TransitTime + MaxLate)}

LEMMA PutsStep ==
  ASSUME ListenerInv, StreamTyped, NEW odd, UNCHANGED Queue,
         (Send /\ odd = StreamOdd) \/ (Stray(odd) /\ odd \in StrayOdds)
  PROVE  Puts(odd)
<1> DEFINE p == Pdu(odd, now + TransitTime + MaxLate)
<1>1. now + TransitTime + MaxLate \in Nat /\ net \in Seq(PacketType)
  BY Numbers DEF StreamTyped
<1>2. p \in PacketType
  BY <1>1, PduType DEF StreamTyped
<1>3. net' = Append(net, p)
  BY DEF Send, Stray
<1> HIDE DEF p
<1>4. Elements(net') = Elements(net) \cup {p}
  BY <1>1, <1>2, <1>3, AppendElements
<1> QED BY <1>4 DEF Pending, Puts, p

\* A packet moves on.
LEMMA PacketMoves ==
  ASSUME ListenerInv, StreamTyped, NEW pdu,
         (Takes(pdu) /\ UNCHANGED streamVars) \/ Drops(pdu) \/ Arrives(pdu)
  PROVE  /\ pdu \in Pending /\ Pending' \subseteq Pending
         /\ Pending \subseteq Pending' \cup {pdu}
         /\ Arrives(pdu) => Pending' = Pending
<1>1. Queue \in Seq(PacketType) /\ net \in Seq(PacketType)
  BY QueueType DEF StreamTyped
<1>2. CASE Takes(pdu) /\ UNCHANGED streamVars
  <2>1. Elements(Queue) = {pdu} \cup Elements(Queue') /\ net' = net
    BY <1>1, <1>2, HeadElements DEF Takes, streamVars
  <2>2. ~Arrives(pdu)
    <3>1. Len(Queue') # Len(Queue) + 1
      BY <1>1, <1>2 DEF Takes
    <3> QED BY <1>1, <3>1 DEF Arrives
  <2> QED BY <2>1, <2>2 DEF Pending
<1>3. CASE Drops(pdu)
  <2>1. Elements(net) = {pdu} \cup Elements(net') /\ Queue' = Queue
    BY <1>1, <1>3, HeadElements DEF Drops
  <2>2. ~Arrives(pdu)
    <3>1. pdu \in PacketType
      BY <1>1, <1>3, HeadTail DEF Drops
    <3> QED BY <1>1, <2>1, <3>1 DEF Arrives
  <2> QED BY <2>1, <2>2 DEF Pending
<1>4. CASE Arrives(pdu)
  <2>1. Elements(net) = {pdu} \cup Elements(net') /\ pdu \in PacketType
    BY <1>1, <1>4, HeadElements, HeadTail DEF Arrives
  <2>2. Elements(Queue') = Elements(Queue) \cup {pdu}
    BY <1>1, <1>4, <2>1, AppendElements DEF Arrives
  <2> QED BY <2>1, <2>2 DEF Pending
<1> QED BY <1>2, <1>3, <1>4

\* What a step takes from them, or puts there.
LEMMA PendingMoves ==
  ASSUME ListenerInv, StreamTyped, StreamMoves
  PROVE  Pending' \subseteq Pending \/ (Hold /\ Queue' = Queue) \/ \E odd : Puts(odd)
<1>1. Queue \in Seq(PacketType) /\ net \in Seq(PacketType)
  BY QueueType DEF StreamTyped
<1>2. CASE Idle
  BY <1>2 DEF Idle, streamVars, Pending
<1>3. CASE Gone
  BY <1>3, NoElements DEF Gone, streamVars, Pending
<1>8. CASE (Tick \/ Send \/ Skip \/ Hold \/ \E odd \in StrayOdds : Stray(odd))
             /\ UNCHANGED Queue
  <2>1. CASE Tick \/ Skip
    BY <1>8, <2>1 DEF Tick, Skip, Pending
  <2>2. CASE Send \/ \E odd \in StrayOdds : Stray(odd)
    BY <1>8, <2>2, PutsStep
  <2> QED BY <1>8, <2>1, <2>2
<1>9. CASE LeaveLoop /\ UNCHANGED <<Queue, streamVars>>
  BY <1>9 DEF streamVars, Pending
<1>10. CASE \E pdu : (Takes(pdu) /\ UNCHANGED streamVars) \/ Drops(pdu) \/ Arrives(pdu)
  BY <1>10, PacketMoves
<1> QED BY <1>2, <1>3, <1>8, <1>9, <1>10 DEF StreamMoves

\* A packet on the way, at time t: what its avtp_time and its due time have to
\* do with the time it was sent for, with so much delay.
Timed(pdu, t, delay) ==
  /\ pdu.avtp_time = pdu.ptime % Wrap
  /\ Offset <= pdu.ptime /\ pdu.ptime <= t + Offset
  /\ t <= pdu.due /\ pdu.due <= pdu.ptime - Offset + TransitTime + MaxLate + delay

TimedInv == \A pdu \in Pending : Timed(pdu, now, Delay * faults)

LEMMA PendingType ==
  ASSUME ListenerInv, StreamTyped
  PROVE  /\ Queue \in Seq(PacketType) /\ net \in Seq(PacketType)
         /\ Pending \subseteq PacketType
<1>1. Queue \in Seq(PacketType) /\ net \in Seq(PacketType)
  BY QueueType DEF StreamTyped
<1> QED BY <1>1, ElementsShape DEF Pending

\* The clock and the faults.
LEMMA StreamTimes ==
  ASSUME StreamTyped, StreamMoves
  PROVE  /\ (now' = now /\ ~Tick) \/ (now' = now + 1 /\ Tick)
         /\ faults' \in {faults, faults + 1}
<1>1. CASE Tick \/ Send \/ Skip \/ Hold \/ \E odd \in StrayOdds : Stray(odd)
  BY <1>1 DEF Tick, Send, Skip, Hold, Stray, Fault, StreamTyped
<1>2. ASSUME now' = now
      PROVE  ~Tick
  BY <1>2 DEF Tick, StreamTyped
<1>3. ASSUME UNCHANGED streamVars
      PROVE  now' = now /\ faults' = faults
  BY <1>3 DEF streamVars
<1>4. CASE Idle \/ Gone \/ (LeaveLoop /\ UNCHANGED <<Queue, streamVars>>)
  BY <1>2, <1>3, <1>4 DEF Idle, Gone
<1>5. CASE \E pdu : (Takes(pdu) /\ UNCHANGED streamVars) \/ Drops(pdu) \/ Arrives(pdu)
  BY <1>2, <1>3, <1>5 DEF Takes, Drops, Arrives
<1> QED BY <1>1, <1>4, <1>5 DEF StreamMoves

LEMMA TimedLater ==
  ASSUME NEW pdu \in PacketType, NEW t \in Nat, NEW u \in Nat, NEW d \in Nat, NEW e \in Nat,
         Timed(pdu, t, d), t <= u, u <= pdu.due, d <= e
  PROVE  Timed(pdu, u, e)
BY Numbers DEF Timed, PacketType

LEMMA TimedNext ==
  ASSUME ListenerInv, StreamTyped, (ListenerInv /\ StreamTyped)', StreamMoves, TimedInv
  PROVE  TimedInv'
<1>1. /\ now \in Nat /\ faults \in Nat /\ Pending \subseteq PacketType
      /\ Queue \in Seq(PacketType) /\ net \in Seq(PacketType)
  BY PendingType, Numbers DEF StreamTyped
<1>2. /\ Delay * faults \in Nat /\ Delay * faults' \in Nat
      /\ Delay * faults <= Delay * faults'
  <2>1. faults' \in Nat /\ faults <= faults'
    BY <1>1, StreamTimes
  <2> QED BY <1>1, <2>1, Numbers, Grows
<1>3. ASSUME NEW pdu \in Pending
      PROVE  now' \in Nat /\ now <= now' /\ now' <= pdu.due
  <2>1. CASE now' = now
    BY <1>1, <1>3, <2>1 DEF TimedInv, Timed, PacketType
  <2>2. CASE now' = now + 1 /\ Tick
    <3>1. now < pdu.due
      <4>1. CASE pdu \in Elements(Queue)
        <5>1. pdu \in Waiting
          BY <4>1, QueueWaiting DEF Elements
        <5> QED BY <2>2, <5>1 DEF Tick
      <4>2. CASE pdu \in Elements(net)
        <5>1. PICK i \in 1 .. Len(net) : pdu = net[i]
          BY <4>2 DEF Elements
        <5>2. now < net[i].due - MaxLate
          BY <1>1, <2>2, <5>1 DEF Tick
        <5> QED BY <1>1, <5>1, <5>2, Numbers DEF PacketType
      <4> QED BY <1>3, <4>1, <4>2 DEF Pending
    <3> QED BY <1>1, <2>2, <3>1 DEF PacketType
  <2> QED BY <2>1, <2>2, StreamTimes
<1>4. ASSUME NEW pdu \in Pending
      PROVE  Timed(pdu, now', Delay * faults')
  BY <1>1, <1>2, <1>3, TimedLater DEF TimedInv
<1>5. CASE Pending' \subseteq Pending
  BY <1>4, <1>5 DEF TimedInv
<1>6. CASE Hold /\ Queue' = Queue
  <2>1. /\ now' = now /\ faults' = faults + 1
        /\ net' = [i \in 1 .. Len(net) |-> [net[i] EXCEPT !.due = @ + Delay]]
    BY <1>1, <1>6 DEF Hold, Fault
  <2>2. Delay * faults' = Delay * faults + Delay
    BY <1>1, <2>1, Numbers
  <2>3. ASSUME NEW i \in 1 .. Len(net)
        PROVE  Timed([net[i] EXCEPT !.due = @ + Delay], now', Delay * faults')
    <3>1. net[i] \in PacketType /\ Timed(net[i], now, Delay * faults)
      BY <1>1, <2>3 DEF TimedInv, Pending, Elements
    <3> DEFINE p == net[i]
    <3> HIDE DEF p
    <3>2. ASSUME p \in PacketType, Timed(p, now, Delay * faults)
          PROVE  Timed([p EXCEPT !.due = @ + Delay], now, Delay * faults + Delay)
      <4> DEFINE q == [p EXCEPT !.due = @ + Delay]
                 d == Delay * faults
      <4>1. q.due = p.due + Delay /\ q.ptime = p.ptime /\ q.avtp_time = p.avtp_time
        BY <3>2 DEF PacketType
      <4>2. p.due \in Nat /\ p.ptime \in Nat /\ d \in Nat
        BY <1>2, <3>2 DEF PacketType
      <4>3. Timed(p, now, d)
        BY <3>2
      <4> HIDE DEF q, d
      <4>4. /\ p.avtp_time = p.ptime % Wrap
            /\ Offset <= p.ptime /\ p.ptime <= now + Offset
            /\ now <= p.due /\ p.due <= p.ptime - Offset + TransitTime + MaxLate + d
        BY <4>3 DEF Timed
      <4>5. /\ now <= p.due + Delay
            /\ p.due + Delay <= p.ptime - Offset + TransitTime + MaxLate + (d + Delay)
        <5>1. \A due, ptime \in Nat : now <= due /\ due <= ptime - Offset + TransitTime + MaxLate + d
                => /\ now <= due + Delay
                   /\ due + Delay <= ptime - Offset + TransitTime + MaxLate + (d + Delay)
          BY <1>1, <4>2, Numbers
        <5> QED BY <4>2, <4>4, <5>1
      <4>6. Timed(q, now, d + Delay)
        BY <4>1, <4>4, <4>5 DEF Timed
      <4> QED BY <4>6 DEF q, d
    <3> QED BY <2>1, <2>2, <3>1, <3>2 DEF p
  <2>4. ASSUME NEW pdu \in Elements(net')
        PROVE  Timed(pdu, now', Delay * faults')
    <3>1. PICK i \in 1 .. Len(net) : pdu = net'[i]
      BY <2>1, <1>1 DEF Elements
    <3> QED BY <2>1, <2>3, <3>1
  <2> QED BY <1>4, <1>6, <2>4 DEF TimedInv, Pending
<1>7. ASSUME NEW odd, Puts(odd)
      PROVE  TimedInv'
  <2> DEFINE p == Pdu(odd, now + TransitTime + MaxLate)
  <2>1. now' = now
    BY <1>7 DEF Puts, Send, Stray
  <2>2. /\ p.ptime = now + Offset /\ p.avtp_time = (now + Offset) % Wrap
        /\ p.due = now + TransitTime + MaxLate
    BY DEF Pdu, ToAvtpTime
  <2>3. Timed(p, now', Delay * faults')
    <3> HIDE DEF p
    <3> QED BY <1>1, <1>2, <2>1, <2>2, Numbers DEF Timed
  <2> QED BY <1>4, <1>7, <2>3 DEF TimedInv, Puts
<1> QED BY <1>5, <1>6, <1>7, PendingMoves

LEMMA InitTimed == Init => TimedInv
<1> SUFFICES ASSUME Init PROVE TimedInv
  OBVIOUS
<1>1. ListenerInv /\ StreamTyped
  BY InitListener
<1>2. ~Mapped /\ ~sk /\ net = <<>>
  BY DEF Init, ContextInit, ListenerInit, Mapped
<1>3. Queue = <<>>
  BY <1>1, <1>2, QuietQueue DEF Queue
<1> QED BY <1>2, <1>3, NoElements DEF TimedInv, Pending

LEMMA TimedHolds == Spec => []TimedInv
<1>1. ListenerInv /\ StreamTyped /\ (ListenerInv /\ StreamTyped)' /\ TimedInv /\ [Next]_vars
        => TimedInv'
  BY StreamStep, TimedNext
<1> QED BY <1>1, InitTimed, ListenerHolds, PTL DEF Spec

-----------------------------------------------------------------------------
(* The device and the account of the playback.                             *)

PcmInv ==
  /\ pcm \in PcmStates
  /\ pcm.phase = "running" => pcm.fill >= 1
  /\ pcm.phase = "xrun" => pcm.fill = 0
  /\ started => pcm.phase # "prepared"
  /\ ~started => pcm = Prepared \/ pcm.phase \in {"xrun", "closed"}
  /\ IF InLoop THEN pcm.phase # "closed" ELSE pcm.phase \in {"prepared", "closed"}
  /\ main \in {"start", "xsk", "packet"} => pcm = Prepared /\ ~started
  /\ late_count \in Nat /\ missing \in Nat /\ cut \in Nat
  /\ started \in BOOLEAN

\* What is left of a PDU that is written, and the device that holds it.
LEMMA WrittenShape ==
  ASSUME NEW p \in PcmStates, NEW n \in Nat
  PROVE  /\ Written(p, n) \in PcmStates
         /\ Written(p, n).fill = IF p.fill + n > Buffer THEN Buffer ELSE p.fill + n
         /\ Written(p, n).phase
              = IF Written(p, n).fill >= Threshold THEN "running" ELSE p.phase
<1> DEFINE fill == IF p.fill + n > Buffer THEN Buffer ELSE p.fill + n
<1>1. p.fill \in 0 .. Buffer /\ p.phase \in {"prepared", "running", "xrun", "closed"}
  BY DEF PcmStates
<1>2. fill \in 0 .. Buffer
  BY <1>1, Numbers
<1>3. Written(p, n) = [fill |-> fill,
                       phase |-> IF fill >= Threshold THEN "running" ELSE p.phase]
  BY DEF Written
<1> HIDE DEF fill
<1>4. Written(p, n) \in PcmStates
  BY <1>1, <1>2, <1>3 DEF PcmStates
<1> QED BY <1>3, <1>4 DEF fill

\* What process_pdu() does with a packet: it refuses it, drops it,
Refuses(pdu) == ~Accepted(pdu) /\ UNCHANGED <<playVars, missing, cut>>

Gated(pdu) == \E read \in {now - 1, now} \cap Nat : Late(pdu, read, now)
Passes(pdu) == \E read \in {now - 1, now} \cap Nat : ~Late(pdu, read, now)

TooLate(pdu) ==
  /\ Accepted(pdu) /\ Gated(pdu)
  /\ late_count' = late_count + 1
  /\ missing' = missing + PduFrames
  /\ UNCHANGED <<started, pcm, cut>>

\* writes it to a device that plays, all of it or what there is a place for,
Plays(pdu, short) ==
  /\ Accepted(pdu) /\ Passes(pdu)
  /\ started /\ started' /\ pcm.phase = "running" /\ pcm'.phase = "running"
  /\ pcm' \in PcmStates /\ pcm'.fill = pcm.fill + PduFrames - short
  /\ short > 0 => pcm'.fill = Buffer
  /\ missing' = missing + short /\ cut' = cut + short
  /\ UNCHANGED late_count

\* or to one that it prefills,
Starts(pdu) ==
  /\ Accepted(pdu) /\ Passes(pdu)
  /\ ~started /\ started' /\ pcm = Prepared
  /\ pcm' = [phase |-> "running", fill |-> Buffer]
  /\ missing' = 0 /\ cut' = 0
  /\ UNCHANGED late_count

\* or finds the device dry.
Recovers(pdu) ==
  /\ Accepted(pdu) /\ Passes(pdu)
  /\ pcm.phase = "xrun" /\ pcm' \in {Prepared, pcm}
  /\ started' = FALSE
  /\ missing' = missing + PduFrames
  /\ UNCHANGED <<late_count, cut>>

LEMMA TakesMoves ==
  ASSUME PcmInv, NEW pdu, Takes(pdu)
  PROVE  \/ Refuses(pdu) \/ TooLate(pdu) \/ Starts(pdu) \/ Recovers(pdu)
         \/ \E short \in 0 .. PduFrames : Plays(pdu, short)
<1> DEFINE written == Accepted(pdu) /\ started' /\ late_count' = late_count
           short == PduFrames - (pcm'.fill - Ready.fill)
           new == ~started /\ started'
<1>1. PICK read \in {now - 1, now} \cap Nat :
        \/ Rejected(pdu) \/ Dropped(pdu, read, now)
        \/ Queued(pdu, read, now) \/ Recovered(pdu, read, now)
  BY DEF Takes, ProcessPdu
<1>2. /\ missing' = (IF new THEN 0 ELSE missing)
                      + (IF written THEN short ELSE IF Accepted(pdu) THEN PduFrames ELSE 0)
      /\ cut' = (IF new THEN 0 ELSE cut) + (IF written THEN short ELSE 0)
  BY DEF Takes, Account
<1>3. /\ late_count \in Nat /\ missing \in Nat /\ cut \in Nat /\ pcm \in PcmStates
      /\ pcm.fill \in 0 .. Buffer /\ InLoop /\ pcm.phase # "closed"
  BY DEF PcmInv, Takes, PcmStates
<1>4. CASE Rejected(pdu)
  <2>1. ~Accepted(pdu) /\ UNCHANGED playVars /\ ~new /\ ~written
    BY <1>4 DEF Rejected, playVars
  <2> QED BY <1>2, <1>3, <2>1 DEF Refuses
<1>5. CASE Dropped(pdu, read, now)
  <2>1. /\ Accepted(pdu) /\ Gated(pdu) /\ late_count' = late_count + 1
        /\ UNCHANGED <<started, pcm>>
    BY <1>1, <1>5 DEF Dropped, Gated
  <2>2. ~new /\ ~written
    BY <1>3, <2>1
  <2> QED BY <1>2, <1>3, <2>1, <2>2 DEF TooLate
<1>6. CASE Recovered(pdu, read, now)
  <2>1. /\ Accepted(pdu) /\ Passes(pdu) /\ Ready.phase = "xrun"
        /\ pcm' \in {Prepared, pcm} /\ started' = FALSE /\ UNCHANGED late_count
    BY <1>1, <1>6 DEF Recovered, Passes
  <2>2. ~new /\ ~written
    BY <2>1
  <2>3. pcm.phase = "xrun"
    <3>1. CASE started
      BY <2>1, <3>1 DEF Ready
    <3>2. CASE ~started /\ pcm = Prepared
      <4>1. PrefillFrames \in Nat /\ pcm.phase = "prepared" /\ Ready = Written(pcm, PrefillFrames)
        BY <3>2, Numbers DEF PrefillFrames, Ready, Prefilled, Prepared
      <4>2. Ready.phase \in {"running", "prepared"}
        BY <1>3, <4>1, WrittenShape
      <4> QED BY <2>1, <4>2
    <3> QED BY <1>3, <3>1, <3>2 DEF PcmInv
  <2> QED BY <1>2, <1>3, <2>1, <2>2, <2>3 DEF Recovers
<1>7. CASE Queued(pdu, read, now)
  <2>1. /\ Accepted(pdu) /\ Passes(pdu) /\ Ready.phase # "xrun"
        /\ pcm' = Written(Ready, PduFrames) /\ started' = TRUE /\ UNCHANGED late_count
    BY <1>1, <1>7 DEF Queued, Passes
  <2>2. written
    BY <2>1
  <2>3. CASE started
    <3>1. Ready = pcm /\ pcm.phase = "running" /\ ~new
      BY <1>3, <2>1, <2>3 DEF Ready, PcmInv, PcmStates
    <3>2. /\ pcm' \in PcmStates /\ pcm'.phase = "running"
          /\ pcm'.fill = IF pcm.fill + PduFrames > Buffer THEN Buffer
                         ELSE pcm.fill + PduFrames
      BY <1>3, <2>1, <3>1, WrittenShape, Numbers
    <3>3. /\ short \in 0 .. PduFrames /\ pcm'.fill = pcm.fill + PduFrames - short
          /\ short > 0 => pcm'.fill = Buffer
      BY <1>3, <3>1, <3>2, Numbers
    <3>4. missing' = missing + short /\ cut' = cut + short
      BY <1>2, <2>2, <3>1
    <3> HIDE DEF short
    <3>5. Plays(pdu, short)
      BY <2>1, <2>3, <3>1, <3>2, <3>3, <3>4 DEF Plays
    <3> QED BY <3>3, <3>5
  <2>4. CASE ~started
    <3>1. pcm = Prepared /\ Prepared.fill = 0 /\ Prepared.phase = "prepared"
      <4>1. pcm.phase # "xrun"
        BY <2>1, <2>4 DEF Ready, Prefilled
      <4> QED BY <1>3, <2>4, <4>1 DEF PcmInv, Prepared
    <3>2. PrefillFrames = Buffer - PduFrames /\ PrefillFrames \in Nat
      BY Numbers DEF PrefillFrames
    <3>3. Ready = Written(pcm, PrefillFrames)
      BY <2>4, <3>1 DEF Ready, Prefilled
    <3>4. Ready \in PcmStates /\ Ready.fill = Buffer - PduFrames
      <4>1. /\ Ready \in PcmStates
            /\ Ready.fill = IF pcm.fill + PrefillFrames > Buffer THEN Buffer
                            ELSE pcm.fill + PrefillFrames
        BY <1>3, <3>2, <3>3, WrittenShape
      <4>2. pcm.fill + PrefillFrames = Buffer - PduFrames /\ ~(Buffer - PduFrames > Buffer)
        BY <3>1, <3>2, Numbers
      <4> QED BY <4>1, <4>2
    <3>5. /\ pcm' \in PcmStates /\ pcm'.fill = Buffer
          /\ pcm'.phase = IF pcm'.fill >= Threshold THEN "running" ELSE Ready.phase
      <4>1. /\ pcm' \in PcmStates
            /\ pcm'.fill = IF Ready.fill + PduFrames > Buffer THEN Buffer
                           ELSE Ready.fill + PduFrames
            /\ pcm'.phase = IF pcm'.fill >= Threshold THEN "running" ELSE Ready.phase
        <5>1. PduFrames \in Nat
          BY Numbers
        <5> QED BY <2>1, <3>4, <5>1, WrittenShape
      <4>2. Ready.fill + PduFrames = Buffer /\ ~(Buffer > Buffer)
        BY <3>4, Numbers
      <4> QED BY <4>1, <4>2
    <3>6. pcm'.phase = "running"
      BY <3>5, Numbers
    <3>7. pcm' = [phase |-> "running", fill |-> Buffer]
      BY <3>5, <3>6 DEF PcmStates
    <3>8. missing' = 0 /\ cut' = 0
      <4>1. short = 0
        BY <3>4, <3>5, Numbers
      <4> HIDE DEF short
      <4> QED BY <1>2, <2>1, <2>2, <2>4, <4>1
    <3> QED BY <2>1, <2>4, <3>1, <3>7, <3>8 DEF Starts
  <2> QED BY <1>3, <2>3, <2>4
<1> QED BY <1>1, <1>4, <1>5, <1>6, <1>7

LEMMA InitPcm == Init => PcmInv
<1> SUFFICES ASSUME Init PROVE PcmInv
  OBVIOUS
<1>1. /\ main = "start" /\ started = FALSE /\ pcm = Prepared
      /\ late_count = 0 /\ missing = 0 /\ cut = 0
  BY DEF Init, ListenerInit
<1>2. Prepared \in PcmStates /\ Prepared.phase = "prepared"
  BY Numbers DEF Prepared, PcmStates
<1> QED BY <1>1, <1>2 DEF PcmInv, InLoop

LEMMA TakesPcm ==
  ASSUME PcmInv, NEW pdu, Takes(pdu), main' = main
  PROVE  PcmInv'
<1>1. /\ InLoop /\ InLoop' /\ main \notin {"start", "xsk", "packet"} /\ main' = main
      /\ late_count \in Nat /\ missing \in Nat /\ cut \in Nat /\ started \in BOOLEAN
      /\ Buffer \in Nat /\ PduFrames \in Nat \ {0} /\ Buffer >= 1
  BY Numbers DEF Takes, InLoop, PcmInv
<1>2. CASE Refuses(pdu)
  BY <1>1, <1>2 DEF Refuses, playVars, PcmInv, InLoop
<1>3. CASE TooLate(pdu)
  BY <1>1, <1>3 DEF TooLate, PcmInv, InLoop
<1>4. CASE Starts(pdu)
  BY <1>1, <1>4 DEF Starts, PcmInv, PcmStates
<1>5. CASE Recovers(pdu)
  <2>1. pcm' \in PcmStates /\ (pcm' = Prepared \/ (pcm'.phase = "xrun" /\ pcm'.fill = 0))
    BY <1>1, <1>5 DEF Recovers, PcmInv, PcmStates, Prepared
  <2>2. started' = FALSE /\ missing' \in Nat /\ late_count' \in Nat /\ cut' \in Nat
    BY <1>1, <1>5 DEF Recovers
  <2>3. Prepared.phase = "prepared"
    BY DEF Prepared
  <2>4. pcm'.phase \in {"prepared", "xrun"} /\ (pcm'.phase = "xrun" => pcm'.fill = 0)
        /\ (pcm' = Prepared \/ pcm'.phase = "xrun")
    BY <2>1, <2>3
  <2> QED BY <1>1, <2>1, <2>2, <2>4 DEF PcmInv
<1>6. ASSUME NEW short \in 0 .. PduFrames, Plays(pdu, short)
      PROVE  PcmInv'
  <2>1. /\ started' \in BOOLEAN /\ started' /\ pcm'.phase = "running" /\ pcm' \in PcmStates
        /\ missing' \in Nat /\ cut' \in Nat /\ late_count' \in Nat
    BY <1>1, <1>6 DEF Plays
  <2>2. pcm'.fill >= 1
    <3>1. /\ pcm.fill \in 0 .. Buffer /\ pcm.fill >= 1
          /\ pcm'.fill = pcm.fill + PduFrames - short
      BY <1>6 DEF Plays, PcmInv, PcmStates
    <3> QED BY <1>1, <3>1
  <2> QED BY <1>1, <2>1, <2>2 DEF PcmInv
<1> QED BY <1>2, <1>3, <1>4, <1>5, <1>6, TakesMoves

LEMMA PcmStep ==
  ASSUME ListenerInv, StreamTyped, (ListenerInv /\ StreamTyped)', PcmInv, [Next]_vars
  PROVE  PcmInv'
<1> USE DEF PcmInv, InLoop
<1>1. CASE UNCHANGED vars
  BY <1>1 DEF vars, listenerVars
<1>2. CASE (Bring \/ TearDown) /\ UNCHANGED <<listenerVars, streamVars, missing, cut>>
  BY <1>2 DEF listenerVars
<1>3. CASE Setup /\ UNCHANGED <<streamVars, missing, cut>>
  BY <1>3 DEF Setup, Steer, NoQueue, Opened, NotOpened, OpenSocket, playVars, Prepared
<1>4. CASE (PollRings \/ ReleaseBatch \/ Finish \/ Signal \/ EarlySignal)
             /\ UNCHANGED <<streamVars, missing, cut>>
  BY <1>4 DEF PollRings, ReleaseBatch, Finish, Signal, EarlySignal, playVars, Prepared
<1>5. CASE ReleaseRx /\ UNCHANGED <<streamVars, missing, cut>>
  BY <1>5 DEF ReleaseRx, listenerVars
<1>6. CASE LeaveLoop /\ missing' = 0 /\ cut' = 0 /\ UNCHANGED streamVars
  BY <1>6, Numbers DEF LeaveLoop, Closed, PcmStates
<1>7. CASE Process /\ UNCHANGED streamVars
  <2>1. main' = main
    BY <1>7 DEF Process, ProcessNext, ReceiveDatagram
  <2> QED BY <1>7, <2>1, ProcessQueue, TakesPcm
<1>8. CASE Tick
  <2>1. /\ pcm' = Played(pcm) /\ UNCHANGED <<main, started, late_count, missing, cut>>
        /\ main \notin {"start", "xsk", "packet"} /\ InLoop
    BY <1>8 DEF Tick
  <2>2. CASE pcm.phase # "running"
    BY <2>1, <2>2 DEF Played
  <2>3. CASE pcm.phase = "running"
    <3>1. /\ pcm' = [fill |-> pcm.fill - 1,
                     phase |-> IF pcm.fill = 1 THEN "xrun" ELSE "running"]
          /\ pcm.fill \in 1 .. Buffer
      BY <2>1, <2>3, Numbers DEF Played, PcmStates
    <3>2. pcm' \in PcmStates
      BY <3>1, Numbers DEF PcmStates
    <3> QED BY <2>1, <2>3, <3>1, <3>2, Numbers DEF Prepared
  <2> QED BY <2>2, <2>3
<1>9. CASE Send \/ Hold \/ \E odd \in StrayOdds : Stray(odd)
  BY <1>9 DEF Send, Hold, Stray, listenerVars
<1>10. CASE Skip
  BY <1>10, Numbers DEF Skip, listenerVars
<1>11. CASE Lose \/ NoPlace
  <2>1. UNCHANGED <<listenerVars, cut>> /\ missing' \in {missing, missing + PduFrames}
    BY <1>11 DEF Lose, NoPlace, MissingWith
  <2>2. missing' \in Nat
    BY <2>1, Numbers
  <2> QED BY <2>1, <2>2 DEF listenerVars
<1>12. CASE TakeFrame \/ ArriveInRing
  BY <1>12 DEF TakeFrame, ArriveInRing, listenerVars
<1>13. CASE ArriveInStack
  <2>1. /\ UNCHANGED <<main, playVars, cut>>
        /\ missing' \in {missing, missing + PduFrames}
    BY <1>13 DEF ArriveInStack, MissingWith
  <2>2. missing' \in Nat
    BY <2>1, Numbers
  <2> QED BY <2>1, <2>2 DEF playVars
<1> QED BY <1>1, <1>2, <1>3, <1>4, <1>5, <1>6, <1>7, <1>8, <1>9, <1>10, <1>11, <1>12,
           <1>13 DEF Next

LEMMA PcmHolds == Spec => []PcmInv
<1>1. ListenerInv /\ StreamTyped /\ (ListenerInv /\ StreamTyped)' /\ PcmInv /\ [Next]_vars
        => PcmInv'
  BY PcmStep
<1> QED BY <1>1, InitPcm, ListenerHolds, PTL DEF Spec

\* The gate goes by the time the packet was sent for.
LEMMA GateTime ==
  ASSUME ListenerInv, StreamTyped, TimedInv, NEW pdu \in Pending
  PROVE  /\ Gated(pdu) => pdu.ptime < now - Tolerance
         /\ Passes(pdu) => ~(pdu.ptime < now - Tolerance)
<1>1. /\ now \in Nat /\ faults \in 0 .. MaxFaults /\ pdu \in PacketType
      /\ Timed(pdu, now, Delay * faults)
  BY PendingType DEF StreamTyped, TimedInv
<1>2. pdu.ptime \in Nat /\ pdu.due \in Nat
  BY <1>1 DEF PacketType
<1>3. /\ Delay * faults \in Nat /\ Delay * MaxFaults \in Nat
      /\ Delay * faults <= Delay * MaxFaults
  BY <1>1, Numbers, Grows
<1>4. /\ Offset < Wrap \div 2
      /\ TransitTime + MaxLate + Delay * MaxFaults + 1 < Wrap \div 2
  BY PlayoutAssumption
<1>5. /\ pdu.avtp_time = pdu.ptime % Wrap
      /\ pdu.ptime <= now + Offset /\ now <= pdu.due /\ Offset <= pdu.ptime
      /\ pdu.due <= pdu.ptime - Offset + TransitTime + MaxLate + Delay * faults
  BY <1>1 DEF Timed
<1> DEFINE half == Wrap \div 2
           most == Delay * MaxFaults
           spent == Delay * faults
<1>6. half \in Int
  BY Numbers
<1>7. pdu.ptime - now < half /\ now - pdu.ptime + 1 < half
  <2>1. /\ most \in Nat /\ spent \in Nat /\ spent <= most
        /\ Offset < half /\ TransitTime + MaxLate + most + 1 < half
        /\ pdu.due <= pdu.ptime - Offset + TransitTime + MaxLate + spent
    BY <1>3, <1>4, <1>5
  <2> HIDE DEF half, most, spent
  <2>2. \A ptime, due \in Nat :
          /\ ptime <= now + Offset /\ now <= due
          /\ due <= ptime - Offset + TransitTime + MaxLate + spent
          => ptime - now < half /\ now - ptime + 1 < half
    BY <1>1, <1>6, <2>1, Numbers
  <2> QED BY <1>2, <1>5, <2>1, <2>2
<1>8. ASSUME NEW read \in {now - 1, now} \cap Nat
      PROVE  Late(pdu, read, now) <=> pdu.ptime < now - Tolerance
  <2>1. Corrected(PresentationTime(pdu.avtp_time, read), now) = pdu.ptime
    BY <1>1, <1>2, <1>5, <1>7, CorrectedIsSent
  <2>2. Late(pdu, read, now) <=> pdu.ptime - now < -Tolerance
    BY <2>1 DEF Late
  <2> QED BY <1>1, <1>2, <2>2, Numbers
<1> QED BY <1>8 DEF Gated, Passes

\* The listener drops exactly what is late.
THEOREM GateIsExact == Spec => GateExact
<1>1. ASSUME ListenerInv, StreamTyped, (ListenerInv /\ StreamTyped)', PcmInv, TimedInv,
             Process
      PROVE  late_count' # late_count
               <=> Accepted(InHand) /\ InHand.ptime < now - Tolerance
  <2>1. PICK pdu : Takes(pdu)
    BY <1>1, ProcessQueue
  <2>2. pdu = InHand /\ pdu \in Pending /\ late_count \in Nat
    <3>1. Queue \in Seq(PacketType) /\ Queue # <<>> /\ pdu = Head(Queue) /\ pdu = InHand
      BY <1>1, <2>1, PendingType DEF Takes
    <3>2. Head(Queue) \in Elements(Queue)
      BY <3>1, HeadElements
    <3> QED BY <1>1, <3>1, <3>2 DEF Pending, PcmInv
  <2>3. /\ Gated(pdu) => pdu.ptime < now - Tolerance
        /\ Passes(pdu) => ~(pdu.ptime < now - Tolerance)
    BY <1>1, <2>2, GateTime
  <2>4. CASE Refuses(pdu)
    BY <2>2, <2>4 DEF Refuses, playVars
  <2>5. CASE TooLate(pdu)
    BY <2>2, <2>3, <2>5 DEF TooLate
  <2>6. CASE Starts(pdu) \/ Recovers(pdu) \/ \E short \in 0 .. PduFrames : Plays(pdu, short)
    BY <2>2, <2>3, <2>6 DEF Starts, Recovers, Plays
  <2> QED BY <1>1, <2>1, <2>4, <2>5, <2>6, TakesMoves
<1> QED BY <1>1, ListenerHolds, PcmHolds, TimedHolds, PTL DEF Spec, GateExact

-----------------------------------------------------------------------------
(* The PDUs on the way are in order, each a PDU's time after the one before.*)

Spaced(p, q) == Accepted(p) /\ Accepted(q) => p.ptime + PduFrames <= q.ptime

InOrder(s) == \A i, j \in 1 .. Len(s) : i < j => Spaced(s[i], s[j])

OrderInv ==
  /\ InOrder(Queue) /\ InOrder(net)
  /\ \A p \in Elements(Queue), q \in Elements(net) : Spaced(p, q)

\* They were captured in the run, and after those that were dropped.
InWindow(pdu, late, due) ==
  Accepted(pdu) => /\ StartTime + Offset + PduFrames * late <= pdu.ptime
                   /\ pdu.ptime + PduFrames <= due + Offset

WindowInv ==
  /\ now <= Due /\ Due <= now + PduFrames
  /\ late_count <= captured
  /\ \A pdu \in Pending : InWindow(pdu, late_count, Due)

FlowInv == PcmInv /\ OrderInv /\ WindowInv

LEMMA TailInOrder ==
  ASSUME NEW P, NEW s \in Seq(P), s # <<>>, InOrder(s)
  PROVE  InOrder(Tail(s)) /\ \A q \in Elements(Tail(s)) : Spaced(Head(s), q)
<1> DEFINE n == Len(s)
           r == Tail(s)
<1>1. n \in Nat \ {0} /\ Head(s) = s[1] /\ Len(r) = n - 1
      /\ \A i \in 1 .. n - 1 : r[i] = s[i + 1]
  OBVIOUS
<1>2. \A i, j \in 1 .. n : i < j => Spaced(s[i], s[j])
  BY DEF InOrder
<1> HIDE DEF n, r
<1>3. \A i \in 1 .. n - 1 : i + 1 \in 1 .. n /\ 1 < i + 1
  BY <1>1
<1>4. \A i, j \in 1 .. n - 1 : i < j => i + 1 < j + 1
  BY <1>1
<1>5. ASSUME NEW i \in 1 .. n - 1, NEW j \in 1 .. n - 1, i < j
      PROVE  Spaced(r[i], r[j])
  <2>1. Spaced(s[i + 1], s[j + 1])
    BY <1>2, <1>3, <1>4, <1>5
  <2> QED BY <1>1, <2>1
<1>6. InOrder(r)
  BY <1>1, <1>5 DEF InOrder
<1>7. ASSUME NEW q \in Elements(r)
      PROVE  Spaced(Head(s), q)
  <2>1. PICK i \in 1 .. n - 1 : q = r[i]
    BY <1>1 DEF Elements
  <2>2. 1 \in 1 .. n /\ i + 1 \in 1 .. n /\ 1 < i + 1
    BY <1>1, <1>3
  <2>3. Spaced(s[1], s[i + 1])
    BY <1>2, <2>2
  <2> QED BY <1>1, <2>1, <2>3
<1> QED BY <1>6, <1>7 DEF r

LEMMA AppendInOrder ==
  ASSUME NEW P, NEW s \in Seq(P), NEW p \in P, InOrder(s),
         \A q \in Elements(s) : Spaced(q, p)
  PROVE  InOrder(Append(s, p))
<1> DEFINE n == Len(s)
           r == Append(s, p)
<1>1. n \in Nat /\ Len(r) = n + 1 /\ r[n + 1] = p /\ \A i \in 1 .. n : r[i] = s[i]
  OBVIOUS
<1>2. /\ \A i, j \in 1 .. n : i < j => Spaced(s[i], s[j])
      /\ \A i \in 1 .. n : Spaced(s[i], p)
  BY DEF InOrder, Elements
<1> HIDE DEF n, r
<1>3. ASSUME NEW i \in 1 .. n + 1, NEW j \in 1 .. n + 1, i < j
      PROVE  Spaced(r[i], r[j])
  <2>1. i \in 1 .. n /\ (j \in 1 .. n \/ j = n + 1)
    BY <1>1, <1>3
  <2>2. CASE j \in 1 .. n
    BY <1>1, <1>2, <1>3, <2>1, <2>2
  <2>3. CASE j = n + 1
    BY <1>1, <1>2, <2>1, <2>3
  <2> QED BY <2>1, <2>2, <2>3
<1> QED BY <1>1, <1>3 DEF InOrder, r

LEMMA NothingInOrder == InOrder(<<>>)
BY DEF InOrder

\* A delay changes nothing else of a packet.
LEMMA HoldShape ==
  ASSUME StreamTyped, Hold
  PROVE  /\ Len(net) \in Nat /\ Len(net') = Len(net)
         /\ \A i \in 1 .. Len(net) :
              net'[i].odd = net[i].odd /\ net'[i].ptime = net[i].ptime
<1> DEFINE n == Len(net)
           later(p) == [p EXCEPT !.due = @ + Delay]
<1>1. n \in Nat /\ DOMAIN net = 1 .. n /\ \A i \in 1 .. n : net[i] \in PacketType
  BY DEF StreamTyped
<1>2. net' = [i \in 1 .. n |-> later(net[i])]
  BY <1>1 DEF Hold
<1>3. ASSUME NEW p \in PacketType
      PROVE  later(p).odd = p.odd /\ later(p).ptime = p.ptime
  BY DEF PacketType
<1> HIDE DEF n, later
<1>4. Len(net') = n
  BY <1>1, <1>2
<1>5. \A i \in 1 .. n : net'[i] = later(net[i])
  BY <1>2
<1>6. ASSUME NEW i \in 1 .. n
      PROVE  net'[i].odd = net[i].odd /\ net'[i].ptime = net[i].ptime
  BY <1>1, <1>3, <1>5
<1> QED BY <1>1, <1>4, <1>6 DEF n

\* A step of the network or of the program leaves the packets in order.
LEMMA OrderNext ==
  ASSUME ListenerInv, StreamTyped, StreamMoves, OrderInv, WindowInv
  PROVE  OrderInv'
<1>1. /\ Queue \in Seq(PacketType) /\ net \in Seq(PacketType)
      /\ Pending \subseteq PacketType /\ now \in Nat /\ captured \in Nat
  BY PendingType, Numbers DEF StreamTyped
<1>2. CASE UNCHANGED <<Queue, net>>
  BY <1>2 DEF OrderInv
<1>3. CASE Queue' = <<>> /\ UNCHANGED net
  BY <1>3, NothingInOrder, NoElements DEF OrderInv
<1>4. ASSUME NEW pdu, Takes(pdu), UNCHANGED streamVars
      PROVE  OrderInv'
  <2>1. Queue # <<>> /\ Queue' = Tail(Queue) /\ net' = net
    BY <1>4 DEF Takes, streamVars
  <2>2. InOrder(Queue') /\ Elements(Queue') \subseteq Elements(Queue)
    BY <1>1, <2>1, TailInOrder, HeadElements DEF OrderInv
  <2> QED BY <2>1, <2>2 DEF OrderInv
<1>5. ASSUME NEW pdu, Drops(pdu)
      PROVE  OrderInv'
  <2>1. net # <<>> /\ net' = Tail(net) /\ Queue' = Queue
    BY <1>5 DEF Drops
  <2>2. InOrder(net') /\ Elements(net') \subseteq Elements(net)
    BY <1>1, <2>1, TailInOrder, HeadElements DEF OrderInv
  <2> QED BY <2>1, <2>2 DEF OrderInv
<1>6. ASSUME NEW pdu, Arrives(pdu)
      PROVE  OrderInv'
  <2>1. net # <<>> /\ net' = Tail(net) /\ Queue' = Append(Queue, pdu) /\ pdu = Head(net)
    BY <1>6 DEF Arrives
  <2>2. /\ InOrder(net') /\ Elements(net) = {pdu} \cup Elements(net')
        /\ pdu \in PacketType
        /\ \A q \in Elements(net') : Spaced(pdu, q)
    BY <1>1, <2>1, TailInOrder, HeadElements, HeadTail DEF OrderInv
  <2>3. InOrder(Queue') /\ Elements(Queue') = Elements(Queue) \cup {pdu}
    BY <1>1, <2>1, <2>2, AppendInOrder, AppendElements DEF OrderInv
  <2> QED BY <2>2, <2>3 DEF OrderInv
<1>7. CASE Hold /\ Queue' = Queue
  <2>2. /\ Len(net) \in Nat /\ Len(net') = Len(net)
        /\ \A i \in 1 .. Len(net) :
             net'[i].odd = net[i].odd /\ net'[i].ptime = net[i].ptime
    BY <1>7, HoldShape
  <2>3. ASSUME NEW i \in 1 .. Len(net), NEW q
        PROVE  /\ Spaced(net'[i], q) <=> Spaced(net[i], q)
               /\ Spaced(q, net'[i]) <=> Spaced(q, net[i])
    BY <2>2 DEF Spaced, Accepted
  <2>4. InOrder(net')
    <3>1. ASSUME NEW i \in 1 .. Len(net), NEW j \in 1 .. Len(net), i < j
          PROVE  Spaced(net'[i], net'[j])
      <4>1. Spaced(net[i], net[j])
        BY <3>1 DEF OrderInv, InOrder
      <4> QED BY <2>3, <4>1
    <3> QED BY <2>2, <3>1 DEF InOrder
  <2>5. \A p \in Elements(Queue), q \in Elements(net') : Spaced(p, q)
    BY <2>2, <2>3 DEF Elements, OrderInv
  <2> QED BY <1>7, <2>4, <2>5 DEF OrderInv
<1>8. ASSUME NEW odd, UNCHANGED Queue,
             (Send /\ odd = StreamOdd) \/ (Stray(odd) /\ odd \in StrayOdds)
      PROVE  OrderInv'
  <2> DEFINE p == Pdu(odd, now + TransitTime + MaxLate)
  <2>1. net' = Append(net, p)
    BY <1>8 DEF Send, Stray
  <2>2. p \in PacketType
    <3>1. now + TransitTime + MaxLate \in Nat
      BY <1>1, Numbers
    <3> QED BY <1>1, <1>8, <3>1, PduType
  <2>3. p.ptime = now + Offset /\ p.odd = odd
    BY DEF Pdu
  <2> HIDE DEF p
  <2>4. ASSUME NEW q \in Pending
        PROVE  Spaced(q, p)
    <3>1. CASE Send
      <4>1. Accepted(q) => q.ptime + PduFrames <= Due + Offset
        BY DEF WindowInv, InWindow
      <4> QED BY <2>3, <3>1, <4>1 DEF Send, Spaced
    <3>2. CASE Stray(odd) /\ odd \in StrayOdds
      <4>1. ~Accepted(p)
        BY <2>3, <3>2, PlayoutAssumption DEF Accepted
      <4> QED BY <4>1 DEF Spaced
    <3> QED BY <1>8, <3>1, <3>2
  <2>5. InOrder(net') /\ Elements(net') = Elements(net) \cup {p}
    BY <1>1, <2>1, <2>2, <2>4, AppendInOrder, AppendElements DEF OrderInv, Pending
  <2> QED BY <1>8, <2>4, <2>5 DEF OrderInv, Pending
<1>9. CASE Idle
  BY <1>2, <1>9 DEF Idle, streamVars
<1>10. CASE Gone
  BY <1>3, <1>10 DEF Gone, streamVars
<1>11. CASE \E pdu : (Takes(pdu) /\ UNCHANGED streamVars) \/ Drops(pdu) \/ Arrives(pdu)
  BY <1>4, <1>5, <1>6, <1>11
<1>12. CASE (Tick \/ Send \/ Skip \/ Hold \/ \E odd \in StrayOdds : Stray(odd))
              /\ UNCHANGED Queue
  <2>1. CASE Tick \/ Skip
    BY <1>2, <1>12, <2>1 DEF Tick, Skip
  <2>2. CASE Send \/ \E odd \in StrayOdds : Stray(odd)
    BY <1>8, <1>12, <2>2
  <2> QED BY <1>7, <1>12, <2>1, <2>2
<1>13. CASE LeaveLoop /\ UNCHANGED <<Queue, streamVars>>
  BY <1>2, <1>13 DEF streamVars
<1> QED BY <1>9, <1>10, <1>11, <1>12, <1>13 DEF StreamMoves

\* A factor cancels.
LEMMA Cancels ==
  ASSUME NEW c \in Nat \ {0}, NEW a \in Nat, NEW b \in Nat, c * a <= c * b
  PROVE  a <= b
<1>1. CASE a >= b + 1
  <2>1. c * (b + 1) <= c * a
    BY <1>1, Grows
  <2>2. c * (b + 1) = c * b + c /\ c * b \in Int /\ c * a \in Int
    OBVIOUS
  <2> QED BY <2>1, <2>2
<1> QED BY <1>1

\* When the talker has its next frames, a PDU later.
LEMMA DueTimes ==
  ASSUME StreamTyped
  PROVE  /\ Due \in Nat /\ Due = StartTime + PduFrames * captured
         /\ captured' = captured => Due' = Due
         /\ captured' = captured + 1 => Due' = Due + PduFrames
<1>1. captured \in Nat /\ PduFrames * captured \in Nat
  <2>1. captured \in Nat
    BY Numbers DEF StreamTyped
  <2> QED BY <2>1, Numbers, Grows
<1>2. PduFrames * (captured + 1) = PduFrames * captured + PduFrames
  BY <1>1, Numbers
<1>3. Due = StartTime + PduFrames * captured /\ Due' = StartTime + PduFrames * captured'
  BY DEF Due
<1> QED BY <1>1, <1>2, <1>3, Numbers

LEMMA WindowLater ==
  ASSUME NEW pdu \in PacketType, NEW late \in Nat, NEW due \in Nat, NEW later \in Nat,
         InWindow(pdu, late, due), due <= later
  PROVE  InWindow(pdu, late, later)
<1>1. PduFrames * late \in Nat /\ pdu.ptime \in Nat
  <2>1. \A a, b \in Nat : a * b \in Nat
    OBVIOUS
  <2> QED BY <2>1, Numbers DEF PacketType
<1> QED BY <1>1, Numbers DEF InWindow

\* What a late PDU does to the others'.
LEMMA WindowTakes ==
  ASSUME ListenerInv, StreamTyped, FlowInv, NEW pdu, Takes(pdu), UNCHANGED streamVars
  PROVE  WindowInv'
<1>1. /\ Queue \in Seq(PacketType) /\ net \in Seq(PacketType)
      /\ Pending \subseteq PacketType /\ now \in Nat /\ captured \in Nat
      /\ late_count \in Nat
  BY PendingType, Numbers DEF StreamTyped, FlowInv, PcmInv
<1>2. Due' = Due /\ now' = now /\ captured' = captured /\ net' = net /\ Due \in Nat
      /\ Due = StartTime + PduFrames * captured
  BY <1>1, DueTimes DEF streamVars, Takes
<1>3. Queue # <<>> /\ Queue' = Tail(Queue) /\ pdu = Head(Queue)
  BY DEF Takes
<1>4. /\ pdu \in Pending /\ Pending' \subseteq Pending
      /\ \A q \in Pending' : Spaced(pdu, q)
  <2>1. pdu \in Elements(Queue) /\ Elements(Queue) = {pdu} \cup Elements(Queue')
    BY <1>1, <1>3, HeadElements
  <2>2. \A q \in Elements(Queue') : Spaced(pdu, q)
    BY <1>1, <1>3, TailInOrder DEF FlowInv, OrderInv
  <2>3. \A q \in Elements(net') : Spaced(pdu, q)
    BY <1>2, <2>1 DEF FlowInv, OrderInv
  <2> QED BY <1>2, <2>1, <2>2, <2>3 DEF Pending
<1>5. CASE late_count' = late_count
  BY <1>2, <1>4, <1>5 DEF FlowInv, WindowInv
<1>6. CASE late_count' # late_count
  <2>1. Accepted(pdu) /\ late_count' = late_count + 1
    <3>1. TooLate(pdu)
      BY <1>6, TakesMoves DEF FlowInv, Refuses, Starts, Recovers, Plays, playVars
    <3> QED BY <3>1 DEF TooLate
  <2> DEFINE a == PduFrames * late_count
  <2>2. PduFrames * (late_count + 1) = a + PduFrames /\ a \in Nat
    <3>1. \A x, y \in Nat : x * y \in Nat
      OBVIOUS
    <3> QED BY <1>1, <3>1, Numbers
  <2>3. /\ StartTime + Offset + a <= pdu.ptime /\ pdu.ptime + PduFrames <= Due + Offset
        /\ pdu.ptime \in Nat
    BY <1>1, <1>4, <2>1 DEF FlowInv, WindowInv, InWindow, PacketType
  <2>4. late_count' <= captured'
    <3>1. PduFrames * (late_count + 1) <= PduFrames * captured
      <4>1. PduFrames * captured \in Nat
        BY <1>1, Numbers, Grows
      <4> HIDE DEF a
      <4> QED BY <1>2, <2>2, <2>3, <4>1, Numbers
    <3>2. late_count + 1 <= captured
      BY <1>1, <3>1, Numbers, Cancels
    <3> QED BY <1>2, <2>1, <3>2
  <2>5. ASSUME NEW q \in Pending'
        PROVE  InWindow(q, late_count', Due')
    <3> SUFFICES ASSUME Accepted(q)
                 PROVE  /\ StartTime + Offset + PduFrames * late_count' <= q.ptime
                        /\ q.ptime + PduFrames <= Due + Offset
      BY <1>2 DEF InWindow
    <3>1. q \in Pending /\ q.ptime \in Nat /\ q.ptime + PduFrames <= Due + Offset
      BY <1>1, <1>4 DEF FlowInv, WindowInv, InWindow, PacketType
    <3>2. pdu.ptime + PduFrames <= q.ptime
      BY <1>4, <2>1 DEF Spaced
    <3>3. PduFrames * late_count' = a + PduFrames
      BY <2>1, <2>2
    <3> HIDE DEF a
    <3> QED BY <2>2, <2>3, <3>1, <3>2, <3>3, Numbers
  <2> QED BY <1>2, <2>4, <2>5 DEF FlowInv, WindowInv
<1> QED BY <1>5, <1>6

LEMMA WindowNext ==
  ASSUME ListenerInv, StreamTyped, (ListenerInv /\ StreamTyped)', StreamMoves, FlowInv
  PROVE  WindowInv'
<1>1. /\ Queue \in Seq(PacketType) /\ net \in Seq(PacketType)
      /\ Pending \subseteq PacketType /\ now \in Nat /\ captured \in Nat
      /\ late_count \in Nat /\ captured' \in Nat
  BY PendingType, Numbers DEF StreamTyped, FlowInv, PcmInv
<1>2. /\ Due \in Nat /\ Due = StartTime + PduFrames * captured
      /\ captured' = captured => Due' = Due
      /\ captured' = captured + 1 => Due' = Due + PduFrames
  BY DueTimes
<1>3. /\ now <= Due /\ Due <= now + PduFrames /\ late_count <= captured
      /\ \A pdu \in Pending : InWindow(pdu, late_count, Due)
  BY DEF FlowInv, WindowInv
<1>4. ASSUME Pending' \subseteq Pending, UNCHANGED <<now, captured, late_count>>
      PROVE  WindowInv'
  BY <1>2, <1>3, <1>4 DEF WindowInv
<1>5. ASSUME \/ captured' = captured + 1 /\ now' = now /\ now = Due
             \/ captured' = captured /\ now' = now + 1 /\ now < Due
             \/ captured' = captured /\ now' = now,
             late_count' = late_count
      PROVE  /\ now' <= Due' /\ Due' <= now' + PduFrames
             /\ late_count' <= captured'
             /\ Due <= Due' /\ Due' \in Nat
  <2>1. PduFrames \in Nat
    BY Numbers
  <2> QED BY <1>1, <1>2, <1>3, <1>5, <2>1
<1>6. ASSUME NEW pdu \in Pending, Due' \in Nat, Due <= Due'
      PROVE  InWindow(pdu, late_count, Due')
  BY <1>1, <1>2, <1>3, <1>6, WindowLater
<1>7. CASE Hold /\ Queue' = Queue
  <2>1. UNCHANGED <<now, captured, late_count>>
    BY <1>7 DEF Hold, listenerVars
  <2>2. ASSUME NEW pdu \in Elements(net')
        PROVE  InWindow(pdu, late_count, Due)
    <3>1. PICK i \in 1 .. Len(net) : pdu = net'[i]
      BY <1>7, HoldShape DEF Elements
    <3>2. pdu.odd = net[i].odd /\ pdu.ptime = net[i].ptime
      BY <1>7, <3>1, HoldShape
    <3>3. InWindow(net[i], late_count, Due)
      BY <1>3 DEF Pending, Elements
    <3> QED BY <3>2, <3>3 DEF InWindow, Accepted
  <2> QED BY <1>2, <1>3, <1>7, <2>1, <2>2 DEF WindowInv, Pending
<1>8. ASSUME NEW odd, Puts(odd)
      PROVE  WindowInv'
  <2> DEFINE p == Pdu(odd, now + TransitTime + MaxLate)
  <2>1. late_count' = late_count
    BY <1>8 DEF Puts, Send, Stray, listenerVars
  <2>2. /\ p.ptime = now + Offset /\ p.odd = odd
        /\ Pending' = Pending \cup {p}
    BY <1>8 DEF Pdu, Puts
  <2> HIDE DEF p
  <2>3. CASE Send /\ odd = StreamOdd
    <3>1. captured' = captured + 1 /\ now' = now /\ now = Due
      BY <2>3 DEF Send
    <3>2. InWindow(p, late_count, Due')
      <4>1. p.ptime + PduFrames <= Due' + Offset
        BY <1>1, <1>2, <2>2, <3>1, Numbers
      <4>2. /\ PduFrames * late_count <= PduFrames * captured
            /\ PduFrames * late_count \in Nat /\ PduFrames * captured \in Nat
        BY <1>1, <1>3, Numbers, Grows
      <4>3. StartTime + Offset + PduFrames * late_count <= p.ptime
        BY <1>2, <2>2, <3>1, <4>2, Numbers
      <4> QED BY <4>1, <4>3 DEF InWindow
    <3> QED BY <1>5, <1>6, <2>1, <2>2, <3>1, <3>2 DEF WindowInv
  <2>4. CASE Stray(odd) /\ odd \in StrayOdds
    <3>1. captured' = captured /\ now' = now
      BY <2>4 DEF Stray
    <3>2. ~Accepted(p)
      BY <2>2, <2>4, PlayoutAssumption DEF Accepted
    <3> QED BY <1>2, <1>3, <2>1, <2>2, <3>1, <3>2 DEF WindowInv, InWindow
  <2> QED BY <1>8, <2>3, <2>4 DEF Puts
<1>9. CASE (Tick \/ Skip) /\ UNCHANGED Queue
  <2>1. /\ Pending' = Pending /\ late_count' = late_count
        /\ \/ captured' = captured + 1 /\ now' = now /\ now = Due
           \/ captured' = captured /\ now' = now + 1 /\ now < Due
    BY <1>9 DEF Tick, Skip, Pending, listenerVars
  <2> QED BY <1>5, <1>6, <2>1 DEF WindowInv
<1>10. CASE Idle \/ Gone \/ (LeaveLoop /\ UNCHANGED <<Queue, streamVars>>)
  <2>1. Pending' \subseteq Pending /\ UNCHANGED <<now, captured, late_count>>
    BY <1>10, NoElements DEF Idle, Gone, LeaveLoop, Pending, streamVars, playVars
  <2> QED BY <1>4, <2>1
<1>11. ASSUME NEW pdu, Drops(pdu) \/ Arrives(pdu)
       PROVE  WindowInv'
  <2>1. UNCHANGED <<now, captured, late_count>>
    BY <1>11 DEF Drops, Arrives, playVars
  <2>2. Pending' \subseteq Pending
    BY <1>11, PacketMoves
  <2> QED BY <1>4, <2>1, <2>2
<1>12. CASE \E pdu : Takes(pdu) /\ UNCHANGED streamVars
  BY <1>12, WindowTakes
<1>13. CASE (Send \/ \E odd \in StrayOdds : Stray(odd)) /\ UNCHANGED Queue
  BY <1>8, <1>13, PutsStep
<1> QED BY <1>7, <1>8, <1>9, <1>10, <1>11, <1>12, <1>13 DEF StreamMoves

LEMMA InitFlow == Init => FlowInv
<1> SUFFICES ASSUME Init PROVE FlowInv
  OBVIOUS
<1>1. ListenerInv /\ StreamTyped /\ PcmInv
  BY InitListener, InitPcm
<1>2. /\ ~Mapped /\ ~sk /\ net = <<>>
      /\ now = StartTime /\ captured = 0 /\ late_count = 0
  BY DEF Init, ContextInit, ListenerInit, Mapped
<1>3. Queue = <<>>
  BY <1>1, <1>2, QuietQueue DEF Queue
<1>4. OrderInv
  BY <1>2, <1>3, NoElements, NothingInOrder DEF OrderInv
<1>5. Due = StartTime
  BY <1>2, Numbers DEF Due
<1>6. now <= Due /\ Due <= now + PduFrames /\ late_count <= captured
  BY <1>2, <1>5, Numbers
<1>7. Pending = {}
  BY <1>2, <1>3, NoElements DEF Pending
<1> QED BY <1>1, <1>4, <1>6, <1>7 DEF FlowInv, WindowInv

LEMMA FlowHolds == Spec => []FlowInv
<1>1. ListenerInv /\ StreamTyped /\ (ListenerInv /\ StreamTyped)' /\ FlowInv /\ [Next]_vars
        => FlowInv'
  <2> SUFFICES ASSUME ListenerInv, StreamTyped, (ListenerInv /\ StreamTyped)', FlowInv,
                      [Next]_vars
               PROVE  FlowInv'
    OBVIOUS
  <2>1. StreamMoves
    BY StreamStep
  <2>2. PcmInv'
    BY PcmStep DEF FlowInv
  <2>3. OrderInv' /\ WindowInv'
    BY <2>1, OrderNext, WindowNext DEF FlowInv
  <2> QED BY <2>2, <2>3 DEF FlowInv
<1> QED BY <1>1, InitFlow, ListenerHolds, PTL DEF Spec

\* Every variable holds a value of its type.
THEOREM Typed == Spec => []TypeOK
<1>1. ASSUME ListenerInv, StreamTyped, FlowInv
      PROVE  TypeOK
  <2>1. ContextTypeOK
    BY <1>1 DEF ListenerInv, ContextInv, HeldInv, LostInv, ContextTypeOK, Steps
  <2>2. RingsTypeOK
    BY <1>1, RingRange DEF ListenerInv, RingInv, IInv, Quiet, RingsTypeOK
  <2>3. umem \in [Frames -> PacketType]
    BY <1>1 DEF StreamTyped
  <2>4. /\ main \in {"start", "xsk", "packet", "poll", "batch", "close", "exit"}
        /\ on_queue \in BOOLEAN /\ use_xdp \in BOOLEAN /\ sk \in BOOLEAN
        /\ running \in BOOLEAN
    BY <1>1 DEF ListenerInv, PathInv
  <2>5. rcvd \in 0 .. MaxBatch /\ next \in 0 .. rcvd
    BY <1>1 DEF ListenerInv, BatchInv
  <2>6. /\ started \in BOOLEAN /\ pcm \in PcmStates /\ missing \in Nat /\ cut \in Nat
        /\ late_count \in Nat /\ late_count <= captured
    BY <1>1 DEF FlowInv, PcmInv, WindowInv
  <2>7. /\ socket \in Seq(PacketType) /\ net \in Seq(PacketType)
        /\ now \in Nat /\ captured \in 0 .. MaxPdus /\ faults \in 0 .. MaxFaults
    BY <1>1 DEF StreamTyped
  <2>8. late_count \in 0 .. MaxPdus
    BY <2>6, <2>7, Numbers
  <2> QED BY <2>1, <2>2, <2>3, <2>4, <2>5, <2>6, <2>7, <2>8 DEF TypeOK
<1> QED BY <1>1, ListenerHolds, FlowHolds, PTL

-----------------------------------------------------------------------------
(* What there is no place for.                                             *)

\* The playback is not ahead of what is on the way, and of what is next: what
\* a device that plays holds, and what was cut, is not more than what it may
\* hold before a PDU on the way is late.
NotAhead(ptime) == pcm.fill + cut - Buffer + now <= ptime - PduFrames + Tolerance

CutInv ==
  /\ started /\ pcm.phase = "running"
       => /\ \A pdu \in Pending : Accepted(pdu) => NotAhead(pdu.ptime)
          /\ NotAhead(Due + Offset)
  /\ CutBounded

\* The numbers it is about.
LEMMA CutNumbers ==
  ASSUME ListenerInv, StreamTyped, FlowInv
  PROVE  /\ pcm.fill \in Nat /\ cut \in Nat /\ now \in Nat /\ Due \in Nat
         /\ now <= Due /\ Due <= now + PduFrames
         /\ \A pdu \in Pending : pdu.ptime \in Nat
         /\ \A pdu \in Pending : Accepted(pdu) => pdu.ptime + PduFrames <= Due + Offset
BY PendingType, DueTimes, Numbers
   DEF StreamTyped, FlowInv, PcmInv, PcmStates, WindowInv, InWindow, PacketType

LEMMA CutTakes ==
  ASSUME ListenerInv, StreamTyped, TimedInv, FlowInv, CutInv,
         NEW pdu, Takes(pdu), UNCHANGED streamVars
  PROVE  CutInv'
<1>1. /\ pcm.fill \in Nat /\ cut \in Nat /\ now \in Nat /\ Due \in Nat
      /\ now <= Due /\ Due <= now + PduFrames
      /\ \A q \in Pending : q.ptime \in Nat
      /\ \A q \in Pending : Accepted(q) => q.ptime + PduFrames <= Due + Offset
      /\ PduFrames \in Nat /\ Offset \in Nat /\ Tolerance \in Nat /\ Buffer \in Nat
  BY CutNumbers, Numbers
<1>2. Due' = Due /\ now' = now
  BY DueTimes DEF streamVars
<1>3. pdu \in Pending /\ Pending' \subseteq Pending
  BY PacketMoves
<1>4. \A q \in Pending' : Spaced(pdu, q)
  <2>1. Queue \in Seq(PacketType) /\ Queue # <<>> /\ Queue' = Tail(Queue) /\ pdu = Head(Queue)
        /\ net' = net
    BY PendingType DEF Takes, streamVars
  <2>2. pdu \in Elements(Queue)
    BY <2>1, HeadElements
  <2>3. \A q \in Elements(Queue') : Spaced(pdu, q)
    BY <2>1, TailInOrder DEF FlowInv, OrderInv
  <2>4. \A q \in Elements(net') : Spaced(pdu, q)
    BY <2>1, <2>2 DEF FlowInv, OrderInv
  <2> QED BY <2>3, <2>4 DEF Pending
<1>5. CASE Refuses(pdu) \/ TooLate(pdu)
  <2>1. UNCHANGED <<started, pcm, cut>>
    BY <1>5 DEF Refuses, TooLate, playVars
  <2>2. \A ptime : NotAhead(ptime)' <=> NotAhead(ptime)
    BY <1>2, <2>1 DEF NotAhead
  <2> QED BY <1>2, <1>3, <2>1 DEF CutInv, CutBounded, NotAhead
<1>6. CASE Recovers(pdu)
  BY <1>6 DEF Recovers, CutInv, CutBounded
<1>7. ASSUME Accepted(pdu), NEW fill \in Nat, NEW more \in Nat,
             fill + more - Buffer + now <= pdu.ptime + Tolerance,
             pcm'.fill = fill, cut' = more
      PROVE  /\ \A q \in Pending' : Accepted(q) => NotAhead(q.ptime)'
             /\ NotAhead(Due + Offset)'
             /\ fill = Buffer => more <= Offset + Tolerance
  <2>1. pdu.ptime \in Nat /\ pdu.ptime + PduFrames <= Due + Offset
    BY <1>1, <1>3, <1>7
  <2>2. ASSUME NEW q \in Pending', Accepted(q)
        PROVE  NotAhead(q.ptime)'
    <3>1. q.ptime \in Nat /\ pdu.ptime + PduFrames <= q.ptime
      BY <1>1, <1>3, <1>4, <1>7, <2>2 DEF Spaced
    <3>2. \A ptime, later \in Nat :
            pdu.ptime = ptime /\ ptime + PduFrames <= later
              => fill + more - Buffer + now <= later - PduFrames + Tolerance
      BY <1>1, <1>7
    <3>3. fill + more - Buffer + now <= q.ptime - PduFrames + Tolerance
      BY <2>1, <3>1, <3>2
    <3> QED BY <1>2, <1>7, <3>3 DEF NotAhead
  <2>3. /\ fill + more - Buffer + now <= (Due + Offset) - PduFrames + Tolerance
        /\ fill = Buffer => more <= Offset + Tolerance
    <3>1. \A ptime \in Nat :
            pdu.ptime = ptime /\ ptime + PduFrames <= Due + Offset
              => /\ fill + more - Buffer + now <= (Due + Offset) - PduFrames + Tolerance
                 /\ fill = Buffer => more <= Offset + Tolerance
      BY <1>1, <1>7
    <3> QED BY <2>1, <3>1
  <2>4. NotAhead(Due + Offset)'
    BY <1>2, <1>7, <2>3 DEF NotAhead
  <2> QED BY <2>2, <2>3, <2>4
<1>8. CASE Starts(pdu)
  <2>1. Accepted(pdu) /\ pcm'.fill = Buffer /\ cut' = 0 /\ Passes(pdu)
    BY <1>8 DEF Starts
  <2>2. Buffer + 0 - Buffer + now <= pdu.ptime + Tolerance
    <3>1. ~(pdu.ptime < now - Tolerance) /\ pdu.ptime \in Nat
      BY <1>1, <1>3, <2>1, GateTime
    <3> QED BY <1>1, <3>1
  <2>3. /\ \A q \in Pending' : Accepted(q) => NotAhead(q.ptime)'
        /\ NotAhead(Due + Offset)'
    BY <1>1, <1>7, <2>1, <2>2
  <2>4. cut' <= Offset + Tolerance
    BY <1>1, <2>1
  <2>5. Accepted(pdu)' <=> Accepted(pdu)
    BY DEF Accepted
  <2> QED BY <2>3, <2>4 DEF CutInv, CutBounded, Accepted
<1>9. ASSUME NEW short \in 0 .. PduFrames, Plays(pdu, short)
      PROVE  CutInv'
  <2>1. /\ Accepted(pdu) /\ started /\ pcm.phase = "running"
        /\ pcm'.fill = pcm.fill + PduFrames - short /\ cut' = cut + short
        /\ short > 0 => pcm'.fill = Buffer
    BY <1>9 DEF Plays
  <2> DEFINE fill == pcm.fill + PduFrames - short
             more == cut + short
  <2>2. fill \in Nat /\ more \in Nat
    BY <1>1, <1>9
  <2>3. fill + more - Buffer + now <= pdu.ptime + Tolerance
    <3>1. pcm.fill + cut - Buffer + now <= pdu.ptime - PduFrames + Tolerance
      BY <1>3, <2>1 DEF CutInv, NotAhead
    <3>2. pdu.ptime \in Nat
      BY <1>1, <1>3
    <3> QED BY <1>1, <1>9, <3>1, <3>2
  <2>4. pcm'.fill = fill /\ cut' = more
    BY <2>1
  <2>5. cut <= Offset + Tolerance /\ (short = 0 => more = cut)
    BY <1>1, <2>1 DEF CutInv, CutBounded
  <2> HIDE DEF fill, more
  <2>6. /\ \A q \in Pending' : Accepted(q) => NotAhead(q.ptime)'
        /\ NotAhead(Due + Offset)'
        /\ fill = Buffer => more <= Offset + Tolerance
    BY <1>7, <2>1, <2>2, <2>3, <2>4
  <2>7. cut' <= Offset + Tolerance
    <3>1. CASE short = 0
      BY <2>4, <2>5, <3>1
    <3>2. CASE short > 0
      BY <2>1, <2>4, <2>6, <3>2
    <3> QED BY <1>9, <3>1, <3>2
  <2> QED BY <2>6, <2>7 DEF CutInv, CutBounded, Accepted
<1> QED BY <1>5, <1>6, <1>8, <1>9, TakesMoves DEF FlowInv

LEMMA CutNext ==
  ASSUME ListenerInv, StreamTyped, (ListenerInv /\ StreamTyped)', StreamMoves,
         TimedInv, FlowInv, CutInv
  PROVE  CutInv'
<1>1. /\ pcm.fill \in Nat /\ cut \in Nat /\ now \in Nat /\ Due \in Nat
      /\ now <= Due /\ Due <= now + PduFrames
      /\ \A q \in Pending : q.ptime \in Nat
      /\ PduFrames \in Nat /\ Offset \in Nat /\ Tolerance \in Nat /\ Buffer \in Nat
  BY CutNumbers, Numbers
<1>2. /\ captured' = captured => Due' = Due
      /\ captured' = captured + 1 => Due' = Due + PduFrames
  BY DueTimes
<1>3. ASSUME UNCHANGED <<started, pcm, cut, now>>,
             captured' = captured \/ captured' = captured + 1
      PROVE  /\ CutBounded'
             /\ \A ptime : NotAhead(ptime) => pcm'.fill + cut' - Buffer + now'
                                               <= ptime - PduFrames + Tolerance
             /\ started /\ pcm.phase = "running" => NotAhead(Due + Offset)'
  <2>1. CutBounded' /\ \A ptime : NotAhead(ptime) => pcm'.fill + cut' - Buffer + now'
                                               <= ptime - PduFrames + Tolerance
    BY <1>3 DEF CutInv, CutBounded, NotAhead
  <2>2. ASSUME started, pcm.phase = "running"
        PROVE  NotAhead(Due + Offset)'
    <3>1. pcm.fill + cut - Buffer + now <= (Due + Offset) - PduFrames + Tolerance
      BY <2>2 DEF CutInv, NotAhead
    <3>2. pcm.fill + cut - Buffer + now <= (Due' + Offset) - PduFrames + Tolerance
      BY <1>1, <1>2, <1>3, <3>1
    <3> QED BY <1>3, <3>2 DEF NotAhead
  <2> QED BY <2>1, <2>2
<1>4. ASSUME UNCHANGED <<started, pcm, cut, now>>, Pending' \subseteq Pending,
             captured' = captured \/ captured' = captured + 1
      PROVE  CutInv'
  BY <1>3, <1>4 DEF CutInv, NotAhead, Accepted
<1>5. CASE Idle \/ Gone
  <2>1. UNCHANGED <<started, pcm, cut, now, captured>> /\ Pending' \subseteq Pending
    BY <1>5, NoElements DEF Idle, Gone, streamVars, playVars, Pending
  <2> QED BY <1>4, <2>1
<1>6. ASSUME NEW pdu, Drops(pdu) \/ Arrives(pdu)
      PROVE  CutInv'
  <2>1. UNCHANGED <<started, pcm, cut, now, captured>> /\ Pending' \subseteq Pending
    BY <1>6, PacketMoves DEF Drops, Arrives, playVars
  <2> QED BY <1>4, <2>1
<1>7. CASE Skip /\ UNCHANGED Queue
  <2>1. UNCHANGED <<started, pcm, cut, now, net>> /\ captured' = captured + 1
    BY <1>7 DEF Skip, listenerVars
  <2> QED BY <1>4, <1>7, <2>1 DEF Pending
<1>8. CASE LeaveLoop /\ cut' = 0
  <2>1. pcm'.phase = "closed"
    BY <1>8 DEF LeaveLoop, Closed
  <2>2. cut' <= Offset + Tolerance
    BY <1>1, <1>8
  <2> QED BY <2>1, <2>2 DEF CutInv, CutBounded
<1>9. CASE Tick /\ UNCHANGED Queue
  <2>1. /\ pcm' = Played(pcm) /\ now' = now + 1 /\ UNCHANGED <<started, cut>>
        /\ Pending' = Pending /\ Due' = Due
    BY <1>2, <1>9 DEF Tick, Pending
  <2>2. ASSUME pcm'.phase = "running", NEW ptime
        PROVE  pcm.phase = "running" /\ (NotAhead(ptime) => NotAhead(ptime)')
    <3>1. pcm.phase = "running" /\ pcm'.fill = pcm.fill - 1
      BY <2>1, <2>2 DEF Played
    <3>2. pcm.fill + cut - Buffer + now = pcm'.fill + cut' - Buffer + now'
      BY <1>1, <2>1, <3>1
    <3> QED BY <3>1, <3>2 DEF NotAhead
  <2> QED BY <2>1, <2>2 DEF CutInv, CutBounded, NotAhead, Accepted
<1>10. CASE Hold /\ UNCHANGED Queue
  <2>1. UNCHANGED <<started, pcm, cut, now, captured>>
    BY <1>10 DEF Hold, listenerVars
  <2>2. ASSUME started, pcm.phase = "running", NEW pdu \in Elements(net'), Accepted(pdu)
        PROVE  NotAhead(pdu.ptime)
    <3>1. PICK i \in 1 .. Len(net) : pdu = net'[i]
      BY <1>10, HoldShape DEF Elements
    <3>2. pdu.odd = net[i].odd /\ pdu.ptime = net[i].ptime
      BY <1>10, <3>1, HoldShape
    <3>3. net[i] \in Pending /\ Accepted(net[i])
      BY <2>2, <3>2 DEF Pending, Elements, Accepted
    <3> QED BY <2>2, <3>2, <3>3 DEF CutInv
  <2> QED BY <1>3, <1>10, <2>1, <2>2 DEF CutInv, Pending, NotAhead, Accepted
<1>11. ASSUME NEW odd, Puts(odd)
       PROVE  CutInv'
  <2> DEFINE p == Pdu(odd, now + TransitTime + MaxLate)
  <2>1. /\ p.ptime = now + Offset /\ p.odd = odd /\ Pending' = Pending \cup {p}
        /\ UNCHANGED <<started, pcm, cut, now>>
        /\ captured' = captured \/ captured' = captured + 1
    BY <1>11 DEF Pdu, Puts, Send, Stray, listenerVars
  <2> HIDE DEF p
  <2>2. ASSUME started, pcm.phase = "running", Accepted(p)
        PROVE  NotAhead(p.ptime)
    <3>1. CASE Send
      BY <2>1, <2>2, <3>1 DEF Send, CutInv
    <3>2. CASE Stray(odd) /\ odd \in StrayOdds
      BY <2>1, <2>2, <3>2, PlayoutAssumption DEF Accepted
    <3> QED BY <1>11, <3>1, <3>2 DEF Puts
  <2> QED BY <1>3, <2>1, <2>2 DEF CutInv, NotAhead, Accepted
<1>12. CASE (Send \/ \E odd \in StrayOdds : Stray(odd)) /\ UNCHANGED Queue
  BY <1>11, <1>12, PutsStep
<1>13. CASE \E pdu : Takes(pdu) /\ UNCHANGED streamVars
  BY <1>13, CutTakes
<1> QED BY <1>5, <1>6, <1>7, <1>8, <1>9, <1>10, <1>12, <1>13 DEF StreamMoves

LEMMA InitCut == Init => CutInv
BY DEF Init, ListenerInit, CutInv, CutBounded

\* What is cut does not grow with the stream.
THEOREM CutIsBounded == Spec => []CutBounded
<1>1. ListenerInv /\ StreamTyped /\ (ListenerInv /\ StreamTyped)' /\ TimedInv /\ FlowInv
        /\ CutInv /\ [Next]_vars => CutInv'
  <2> SUFFICES ASSUME ListenerInv, StreamTyped, (ListenerInv /\ StreamTyped)', TimedInv,
                      FlowInv, CutInv, [Next]_vars
               PROVE  CutInv'
    OBVIOUS
  <2>1. StreamMoves
    BY StreamStep
  <2> QED BY <2>1, CutNext
<1>2. CutInv => CutBounded
  BY DEF CutInv
<1> QED BY <1>1, <1>2, InitCut, ListenerHolds, TimedHolds, FlowHolds, PTL DEF Spec

-----------------------------------------------------------------------------
(* What keeps the device from running dry.                                 *)

\* The times of the PDUs on the way: no two of them are the same.
TimesOf(packets) == {pdu.ptime : pdu \in {q \in packets : Accepted(q)}}

Coming == PduFrames * Cardinality(TimesOf(Pending))

\* A device that plays, or has run dry, has had, has still to get or will never
\* get what was captured since.
Reserve(fill, never, coming, due, t) ==
  Buffer + due <= fill + never + coming + PduFrames + t

DryInv ==
  pcm.phase \in {"running", "xrun"} => Reserve(pcm.fill, missing, Coming, Due, now)

\* What a sequence holds is a finite set,
LEMMA ElementsFinite ==
  ASSUME NEW P, NEW s \in Seq(P)
  PROVE  IsFiniteSet(Elements(s))
<1>1. Len(s) \in Nat /\ s \in [1 .. Len(s) -> P]
  OBVIOUS
<1>2. s \in Surjection(1 .. Len(s), Elements(s))
  <2>1. s \in [1 .. Len(s) -> Elements(s)]
    BY <1>1 DEF Elements
  <2>2. \A p \in Elements(s) : \E i \in 1 .. Len(s) : s[i] = p
    BY DEF Elements
  <2> QED BY <2>1, <2>2 DEF Surjection
<1>3. IsFiniteSet(1 .. Len(s))
  BY <1>1, FS_Interval
<1> QED BY <1>2, <1>3, FS_Surjection

\* and so are the times of its packets.
LEMMA TimesFinite ==
  ASSUME NEW S, IsFiniteSet(S)
  PROVE  /\ IsFiniteSet(TimesOf(S)) /\ Cardinality(TimesOf(S)) \in Nat
         /\ IsFiniteSet({pdu \in S : Accepted(pdu)})
         /\ Cardinality({pdu \in S : Accepted(pdu)}) \in Nat
         /\ Cardinality(TimesOf(S)) <= Cardinality({pdu \in S : Accepted(pdu)})
<1> DEFINE A == {pdu \in S : Accepted(pdu)}
           f == [pdu \in A |-> pdu.ptime]
<1>1. IsFiniteSet(A)
  <2>1. A \in SUBSET S
    OBVIOUS
  <2> QED BY <2>1, FS_Subset
<1>2. TimesOf(S) = {pdu.ptime : pdu \in A}
  BY DEF TimesOf
<1> HIDE DEF A
<1>3. f \in Surjection(A, TimesOf(S))
  <2>1. f \in [A -> TimesOf(S)]
    BY <1>2
  <2>2. \A t \in TimesOf(S) : \E pdu \in A : f[pdu] = t
    BY <1>2
  <2> HIDE DEF f
  <2> QED BY <2>1, <2>2 DEF Surjection
<1> HIDE DEF f
<1>4. IsFiniteSet(TimesOf(S)) /\ Cardinality(TimesOf(S)) <= Cardinality(A)
  BY <1>1, <1>3, FS_Surjection
<1> QED BY <1>1, <1>4, FS_CardinalityType DEF A

LEMMA PendingFinite ==
  ASSUME ListenerInv, StreamTyped
  PROVE  IsFiniteSet(Pending) /\ IsFiniteSet(TimesOf(Pending)) /\ Coming \in Nat
<1>1. IsFiniteSet(Elements(Queue)) /\ IsFiniteSet(Elements(net))
  BY PendingType, ElementsFinite
<1>2. IsFiniteSet(Pending)
  BY <1>1, FS_Union DEF Pending
<1>3. IsFiniteSet(TimesOf(Pending)) /\ Cardinality(TimesOf(Pending)) \in Nat
  BY <1>2, TimesFinite
<1> QED BY <1>2, <1>3, Numbers, Grows DEF Coming

\* A set that has all but one of another's elements.
LEMMA AllButOne ==
  ASSUME NEW S, NEW T, NEW x, NEW c \in Nat, IsFiniteSet(S), IsFiniteSet(T),
         S \subseteq T \cup {x}
  PROVE  /\ c * Cardinality(S) \in Nat /\ c * Cardinality(T) \in Nat
         /\ c * Cardinality(S) <= c * Cardinality(T) + c
         /\ S \subseteq T => c * Cardinality(S) <= c * Cardinality(T)
<1> DEFINE s == Cardinality(S)
           t == Cardinality(T)
<1>1. s \in Nat /\ t \in Nat
  BY FS_CardinalityType
<1>2. s <= t + 1
  <2>1. IsFiniteSet(T \cup {x}) /\ Cardinality(T \cup {x}) \in {t, t + 1}
    BY FS_AddElement
  <2>2. s <= Cardinality(T \cup {x})
    BY <2>1, FS_Subset
  <2> QED BY <1>1, <2>1, <2>2
<1>3. S \subseteq T => s <= t
  BY FS_Subset
<1> HIDE DEF s, t
<1>4. c * (t + 1) = c * t + c
  BY <1>1
<1>5. c * s \in Nat /\ c * t \in Nat /\ c * s <= c * (t + 1)
  BY <1>1, <1>2, Grows
<1>6. S \subseteq T => c * s <= c * t
  BY <1>1, <1>3, Grows
<1> QED BY <1>4, <1>5, <1>6 DEF s, t

LEMMA ComingMoves ==
  ASSUME ListenerInv, StreamTyped, (ListenerInv /\ StreamTyped)', NEW pdu,
         Pending \subseteq Pending' \cup {pdu}
  PROVE  /\ Coming \in Nat /\ Coming' \in Nat
         /\ Coming <= Coming' + PduFrames
         /\ ~Accepted(pdu) \/ Pending \subseteq Pending' => Coming <= Coming'
<1>1. IsFiniteSet(TimesOf(Pending)) /\ IsFiniteSet(TimesOf(Pending'))
  <2>1. (ListenerInv /\ StreamTyped => IsFiniteSet(TimesOf(Pending)))'
    BY PendingFinite, PTL
  <2>2. IsFiniteSet(TimesOf(Pending)')
    BY <2>1
  <2>3. TimesOf(Pending)' = TimesOf(Pending')
    BY DEF TimesOf, Accepted
  <2> QED BY <2>2, <2>3, PendingFinite
<1>2. TimesOf(Pending) \subseteq TimesOf(Pending') \cup {pdu.ptime}
  BY DEF TimesOf
<1>3. ~Accepted(pdu) \/ Pending \subseteq Pending'
        => TimesOf(Pending) \subseteq TimesOf(Pending')
  BY DEF TimesOf
<1>4. Coming' = PduFrames * Cardinality(TimesOf(Pending'))
  BY DEF Coming, TimesOf, Accepted
<1> QED BY <1>1, <1>2, <1>3, <1>4, AllButOne, Numbers DEF Coming

\* The reserve stays while what the device has, will get and never gets does.
Covers(fill, never, coming, fill_2, never_2, coming_2) ==
  /\ fill_2 \in Nat /\ never_2 \in Nat /\ coming_2 \in Nat
  /\ \/ fill_2 = fill /\ never_2 = never /\ coming <= coming_2
     \/ fill_2 = fill /\ never_2 = never + PduFrames /\ coming <= coming_2 + PduFrames
     \/ fill_2 + never_2 = fill + never + PduFrames /\ coming <= coming_2 + PduFrames

LEMMA ReserveStays ==
  ASSUME NEW fill \in Nat, NEW never \in Nat, NEW coming \in Nat,
         NEW fill_2, NEW never_2, NEW coming_2, NEW due \in Nat, NEW t \in Nat,
         Covers(fill, never, coming, fill_2, never_2, coming_2),
         Reserve(fill, never, coming, due, t)
  PROVE  Reserve(fill_2, never_2, coming_2, due, t)
BY Numbers DEF Reserve, Covers

LEMMA Loses ==
  ASSUME NEW fill \in Nat, NEW never \in Nat, NEW coming \in Nat, NEW coming_2 \in Nat,
         coming <= coming_2 + PduFrames
  PROVE  Covers(fill, never, coming, fill, never + PduFrames, coming_2)
BY Numbers DEF Covers

LEMMA DryStays ==
  ASSUME DryInv, pcm' = pcm \/ pcm.phase = "running", Due' = Due, now' = now,
         pcm.fill \in Nat, missing \in Nat, Coming \in Nat, Due \in Nat, now \in Nat,
         Covers(pcm.fill, missing, Coming, pcm'.fill, missing', Coming')
  PROVE  DryInv'
<1>1. SUFFICES ASSUME pcm'.phase \in {"running", "xrun"}
               PROVE  Reserve(pcm'.fill, missing', Coming', Due', now')
  BY DEF DryInv
<1>2. Reserve(pcm.fill, missing, Coming, Due, now)
  BY <1>1 DEF DryInv
<1>3. Reserve(pcm'.fill, missing', Coming', Due, now)
  BY <1>2, ReserveStays
<1> QED BY <1>3

LEMMA DryTakes ==
  ASSUME ListenerInv, StreamTyped, (ListenerInv /\ StreamTyped)', FlowInv, DryInv,
         NEW pdu, Takes(pdu), UNCHANGED streamVars
  PROVE  DryInv'
<1>1. /\ pcm.fill \in Nat /\ missing \in Nat /\ now \in Nat /\ Due \in Nat
      /\ now <= Due /\ Due <= now + PduFrames
      /\ PduFrames \in Nat /\ Buffer \in Nat
  BY CutNumbers, Numbers DEF FlowInv, PcmInv
<1>2. Due' = Due /\ now' = now
  BY DueTimes DEF streamVars
<1>3. /\ Coming \in Nat /\ Coming' \in Nat /\ Coming <= Coming' + PduFrames
      /\ ~Accepted(pdu) => Coming <= Coming'
  BY PacketMoves, ComingMoves
<1>4. CASE Refuses(pdu)
  <2>1. pcm' = pcm /\ missing' = missing /\ Coming <= Coming'
    BY <1>3, <1>4 DEF Refuses, playVars
  <2>2. Covers(pcm.fill, missing, Coming, pcm'.fill, missing', Coming')
    BY <1>1, <1>3, <2>1 DEF Covers
  <2> QED BY <1>1, <1>2, <1>3, <2>1, <2>2, DryStays
<1>5. CASE TooLate(pdu)
  <2>1. pcm' = pcm /\ missing' = missing + PduFrames
    BY <1>5 DEF TooLate
  <2>2. Covers(pcm.fill, missing, Coming, pcm'.fill, missing', Coming')
    BY <1>1, <1>3, <2>1, Loses
  <2> QED BY <1>1, <1>2, <1>3, <2>1, <2>2, DryStays
<1>6. CASE Starts(pdu)
  <2>1. pcm'.fill = Buffer /\ missing' = 0
    BY <1>6 DEF Starts
  <2>2. \A b, d, c, n, t \in Nat : d <= t + n => b + d <= b + 0 + c + n + t
    OBVIOUS
  <2>3. Due <= now + PduFrames => Reserve(Buffer, 0, Coming', Due, now)
    BY <1>1, <1>3, <2>2 DEF Reserve
  <2> QED BY <1>1, <1>2, <2>1, <2>3 DEF DryInv
<1>7. CASE Recovers(pdu)
  <2>1. pcm' \in {Prepared, pcm} /\ missing' = missing + PduFrames
    BY <1>7 DEF Recovers
  <2>2. CASE pcm' = Prepared
    BY <2>2 DEF Prepared, DryInv
  <2>3. CASE pcm' = pcm
    <3>1. Covers(pcm.fill, missing, Coming, pcm'.fill, missing', Coming')
      BY <1>1, <1>3, <2>1, <2>3, Loses
    <3> QED BY <1>1, <1>2, <1>3, <2>3, <3>1, DryStays
  <2> QED BY <2>1, <2>2, <2>3
<1>8. ASSUME NEW short \in 0 .. PduFrames, Plays(pdu, short)
      PROVE  DryInv'
  <2>1. /\ pcm.phase = "running" /\ pcm'.fill = pcm.fill + PduFrames - short
        /\ missing' = missing + short
    BY <1>8 DEF Plays
  <2>2. \A f, m, n \in Nat : \A s \in 0 .. n :
          /\ f + n - s \in Nat /\ m + s \in Nat
          /\ (f + n - s) + (m + s) = f + m + n
    OBVIOUS
  <2>3. /\ pcm'.fill \in Nat /\ missing' \in Nat
        /\ pcm'.fill + missing' = pcm.fill + missing + PduFrames
    BY <1>1, <1>8, <2>1, <2>2
  <2>4. Covers(pcm.fill, missing, Coming, pcm'.fill, missing', Coming')
    BY <1>3, <2>3 DEF Covers
  <2> QED BY <1>1, <1>2, <1>3, <2>1, <2>4, DryStays
<1> QED BY <1>4, <1>5, <1>6, <1>7, <1>8, TakesMoves DEF FlowInv

LEMMA DryNext ==
  ASSUME ListenerInv, StreamTyped, (ListenerInv /\ StreamTyped)', StreamMoves,
         FlowInv, DryInv
  PROVE  DryInv'
<1>1. /\ pcm.fill \in Nat /\ missing \in Nat /\ now \in Nat /\ Due \in Nat
      /\ now <= Due /\ Due <= now + PduFrames
      /\ PduFrames \in Nat \ {0} /\ Buffer \in Nat /\ Offset \in Nat
  BY CutNumbers, Numbers DEF FlowInv, PcmInv
<1>2. /\ captured' = captured => Due' = Due
      /\ captured' = captured + 1 => Due' = Due + PduFrames
  BY DueTimes
<1>3. ASSUME Pending \subseteq Pending'
      PROVE  Coming \in Nat /\ Coming' \in Nat /\ Coming <= Coming'
  BY <1>3, ComingMoves
<1>4. ASSUME ~InLoop, pcm' = pcm
      PROVE  DryInv'
  BY <1>4 DEF FlowInv, PcmInv, DryInv
<1>5. ASSUME UNCHANGED <<pcm, now, captured>>, Coming \in Nat,
             Covers(pcm.fill, missing, Coming, pcm.fill, missing', Coming')
      PROVE  DryInv'
  BY <1>1, <1>2, <1>5, DryStays
<1>16. ASSUME missing' = missing, Coming \in Nat, Coming' \in Nat, Coming <= Coming'
      PROVE  Covers(pcm.fill, missing, Coming, pcm.fill, missing', Coming')
  BY <1>1, <1>16 DEF Covers
<1>6. CASE Idle
  <2>1. UNCHANGED <<pcm, now, captured, missing>> /\ Pending' = Pending
    BY <1>6 DEF Idle, streamVars, playVars, Pending
  <2> QED BY <1>3, <1>5, <1>16, <2>1
<1>7. CASE Gone
  BY <1>4, <1>7 DEF Gone, playVars
<1>8. ASSUME NEW pdu, Drops(pdu)
      PROVE  DryInv'
  <2>1. /\ UNCHANGED <<pcm, now, captured>>
        /\ missing' = missing + (IF InLoop /\ Accepted(pdu) THEN PduFrames ELSE 0)
    BY <1>8 DEF Drops, MissingWith, playVars
  <2>2. /\ Coming \in Nat /\ Coming' \in Nat /\ Coming <= Coming' + PduFrames
        /\ ~Accepted(pdu) => Coming <= Coming'
    BY <1>8, PacketMoves, ComingMoves
  <2>3. CASE ~InLoop
    BY <1>4, <2>1, <2>3
  <2>4. CASE InLoop /\ Accepted(pdu)
    <3>1. Covers(pcm.fill, missing, Coming, pcm.fill, missing', Coming')
      BY <1>1, <2>1, <2>2, <2>4, Loses
    <3> QED BY <1>5, <2>1, <2>2, <3>1
  <2>5. CASE InLoop /\ ~Accepted(pdu)
    <3>1. missing' = missing
      BY <1>1, <2>1, <2>5
    <3> QED BY <1>5, <1>16, <2>1, <2>2, <2>5, <3>1
  <2> QED BY <2>3, <2>4, <2>5
<1>9. ASSUME NEW pdu, Arrives(pdu)
      PROVE  DryInv'
  <2>1. UNCHANGED <<pcm, now, captured, missing>> /\ Pending' = Pending
    BY <1>9, PacketMoves DEF Arrives, playVars
  <2> QED BY <1>3, <1>5, <1>16, <2>1
<1>10. CASE Tick /\ UNCHANGED Queue
  <2>1. /\ pcm' = Played(pcm) /\ now' = now + 1 /\ missing' = missing
        /\ Pending' = Pending /\ Due' = Due
    BY <1>2, <1>10 DEF Tick, Pending
  <2>2. Coming \in Nat /\ Coming' \in Nat /\ Coming <= Coming'
    BY <1>3, <2>1
  <2>3. CASE pcm.phase = "running"
    <3>1. pcm'.fill = pcm.fill - 1
      BY <2>1, <2>3 DEF Played
    <3> QED BY <1>1, <2>1, <2>2, <2>3, <3>1 DEF DryInv, Reserve
  <2>4. CASE pcm.phase # "running"
    <3>1. pcm' = pcm
      BY <2>1, <2>4 DEF Played
    <3> QED BY <1>1, <2>1, <2>2, <3>1 DEF DryInv, Reserve
  <2> QED BY <2>3, <2>4
<1>11. CASE Skip /\ UNCHANGED Queue
  <2>1. /\ UNCHANGED <<pcm, now, net>> /\ missing' = missing + PduFrames
        /\ Due' = Due + PduFrames /\ Pending' = Pending
    BY <1>2, <1>11 DEF Skip, listenerVars, Pending
  <2>2. Coming \in Nat /\ Coming' \in Nat /\ Coming <= Coming'
    BY <1>3, <2>1
  <2> QED BY <1>1, <2>1, <2>2 DEF DryInv, Reserve
<1>12. CASE LeaveLoop
  BY <1>12 DEF LeaveLoop, Closed, DryInv
<1>13. CASE Hold /\ UNCHANGED Queue
  <2>1. UNCHANGED <<pcm, now, captured, missing>>
    BY <1>13 DEF Hold, listenerVars
  <2>2. TimesOf(Pending') = TimesOf(Pending)
    <3>1. ASSUME NEW i \in 1 .. Len(net)
          PROVE  net'[i].odd = net[i].odd /\ net'[i].ptime = net[i].ptime
      BY <1>13, HoldShape
    <3>2. Elements(net') = {net'[i] : i \in 1 .. Len(net)}
      BY <1>13, HoldShape DEF Elements
    <3>3. TimesOf(Elements(net')) = TimesOf(Elements(net))
      <4>1. ASSUME NEW t
            PROVE  t \in TimesOf(Elements(net'))
                     <=> \E i \in 1 .. Len(net) : Accepted(net'[i]) /\ net'[i].ptime = t
        BY <3>2 DEF TimesOf
      <4>2. ASSUME NEW t
            PROVE  t \in TimesOf(Elements(net))
                     <=> \E i \in 1 .. Len(net) : Accepted(net[i]) /\ net[i].ptime = t
        BY DEF TimesOf, Elements
      <4>3. ASSUME NEW i \in 1 .. Len(net)
            PROVE  Accepted(net'[i]) <=> Accepted(net[i])
        BY <3>1 DEF Accepted
      <4>4. ASSUME NEW t
            PROVE  t \in TimesOf(Elements(net')) <=> t \in TimesOf(Elements(net))
        BY <3>1, <4>1, <4>2, <4>3
      <4> QED BY <4>4
    <3>4. \A S, T : TimesOf(S \cup T) = TimesOf(S) \cup TimesOf(T)
      BY DEF TimesOf
    <3>5. Pending' = Elements(Queue) \cup Elements(net')
      BY <1>13 DEF Pending
    <3>6. TimesOf(Pending') = TimesOf(Elements(Queue)) \cup TimesOf(Elements(net'))
      BY <3>4, <3>5
    <3>7. TimesOf(Pending) = TimesOf(Elements(Queue)) \cup TimesOf(Elements(net))
      BY <3>4 DEF Pending
    <3> QED BY <3>3, <3>6, <3>7
  <2>3. Coming' = Coming
    <3>1. Coming' = PduFrames * Cardinality(TimesOf(Pending'))
      BY DEF Coming, TimesOf, Accepted
    <3> QED BY <2>2, <3>1 DEF Coming
  <2>4. Coming \in Nat
    BY PendingFinite
  <2>5. Coming <= Coming'
    BY <2>3, <2>4
  <2> QED BY <1>5, <1>16, <2>1, <2>3, <2>4, <2>5
<1>14. CASE (Send \/ \E odd \in StrayOdds : Stray(odd)) /\ UNCHANGED Queue
  <2>1. CASE Send
    <3> DEFINE p == Pdu(StreamOdd, now + TransitTime + MaxLate)
               S == TimesOf(Pending)
               k == Cardinality(S)
    <3>1. /\ UNCHANGED <<pcm, now, missing>> /\ now = Due /\ Due' = Due + PduFrames
      BY <1>2, <2>1 DEF Send, listenerVars
    <3>2. Pending' = Pending \cup {p}
      BY <1>14, <2>1, PutsStep DEF Puts, Send, Stray
    <3>3. Accepted(p) /\ p.ptime = now + Offset
      BY PlayoutAssumption DEF Accepted, Pdu
    <3> HIDE DEF p
    <3>4. TimesOf(Pending') = S \cup {now + Offset}
      BY <3>2, <3>3 DEF TimesOf
    <3>5. now + Offset \notin S
      <4> SUFFICES ASSUME NEW q \in Pending, Accepted(q), q.ptime = now + Offset
                   PROVE  FALSE
        BY DEF TimesOf
      <4>1. q.ptime + PduFrames <= Due + Offset
        BY CutNumbers
      <4> QED BY <1>1, <3>1, <4>1
    <3>6. IsFiniteSet(S) /\ k \in Nat /\ Coming \in Nat
      BY PendingFinite, FS_CardinalityType
    <3>7. Cardinality(TimesOf(Pending')) = k + 1
      <4> HIDE DEF S
      <4> QED BY <3>4, <3>5, <3>6, FS_AddElement
    <3>8. Coming' = PduFrames * (k + 1) /\ Coming = PduFrames * k
      <4>1. Coming' = PduFrames * Cardinality(TimesOf(Pending'))
        BY DEF Coming, TimesOf, Accepted
      <4> QED BY <3>7, <4>1 DEF Coming
    <3> HIDE DEF k
    <3>9. Coming' = Coming + PduFrames
      BY <1>1, <3>6, <3>8
    <3> QED BY <1>1, <3>1, <3>6, <3>9 DEF DryInv, Reserve
  <2>2. CASE \E odd \in StrayOdds : Stray(odd)
    <3>1. PICK odd \in StrayOdds : Stray(odd)
      BY <2>2
    <3>2. UNCHANGED <<pcm, now, captured, missing>> /\ Pending \subseteq Pending'
      BY <1>14, <3>1, PutsStep DEF Puts, Stray, listenerVars
    <3> QED BY <1>3, <1>5, <1>16, <3>2
  <2> QED BY <1>14, <2>1, <2>2
<1>15. CASE \E pdu : Takes(pdu) /\ UNCHANGED streamVars
  BY <1>15, DryTakes
<1> QED BY <1>6, <1>7, <1>8, <1>9, <1>10, <1>11, <1>12, <1>13, <1>14, <1>15 DEF StreamMoves

LEMMA InitDry == Init => DryInv
BY DEF Init, ListenerInit, Prepared, DryInv

\* A device that ran dry has missed what it was prefilled with.
THEOREM UnderrunIsLoss == Spec => []UnderrunNeedsLoss
<1>1. ListenerInv /\ StreamTyped /\ (ListenerInv /\ StreamTyped)' /\ FlowInv
        /\ DryInv /\ [Next]_vars => DryInv'
  <2> SUFFICES ASSUME ListenerInv, StreamTyped, (ListenerInv /\ StreamTyped)',
                      FlowInv, DryInv, [Next]_vars
               PROVE  DryInv'
    OBVIOUS
  <2>1. StreamMoves
    BY StreamStep
  <2> QED BY <2>1, DryNext
<1>2. ASSUME ListenerInv, StreamTyped, FlowInv, DryInv
      PROVE  UnderrunNeedsLoss
  <2> DEFINE A == {pdu \in Pending : Accepted(pdu)}
             held_up == PduFrames * Cardinality(A)
  <2>1. UnderWay = held_up
    <3>1. {net[i] : i \in DOMAIN net} = Elements(net)
      BY <1>2 DEF StreamTyped, Elements
    <3>2. Waiting = Elements(Queue)
      BY <1>2, QueueWaiting DEF Elements
    <3> QED BY <3>1, <3>2 DEF UnderWay, Pending
  <2>2. Coming \in Nat /\ held_up \in Nat /\ Coming <= held_up
    <3>1. IsFiniteSet(Pending)
      BY <1>2, PendingFinite
    <3>2. /\ Cardinality(TimesOf(Pending)) \in Nat /\ Cardinality(A) \in Nat
          /\ Cardinality(TimesOf(Pending)) <= Cardinality(A)
      BY <3>1, TimesFinite
    <3> QED BY <3>2, Numbers, Grows DEF Coming
  <2> HIDE DEF held_up
  <2>3. ASSUME pcm.phase = "xrun"
        PROVE  missing + held_up >= Buffer - PduFrames
    <3>1. pcm.fill = 0 /\ missing \in Nat /\ now \in Nat /\ Due \in Nat /\ now <= Due
      BY <1>2, <2>3, CutNumbers DEF FlowInv, PcmInv
    <3>2. Buffer + Due <= pcm.fill + missing + Coming + PduFrames + now
      BY <1>2, <2>3 DEF DryInv, Reserve
    <3> QED BY <2>2, <3>1, <3>2, Numbers
  <2> QED BY <2>1, <2>3 DEF UnderrunNeedsLoss
<1> QED BY <1>1, <1>2, InitDry, ListenerHolds, FlowHolds, PTL DEF Spec
=============================================================================
