------------------------------ MODULE XskRings ------------------------------
(***************************************************************************)
(* xsk-util.c: the rings an AF_XDP socket shares with the kernel, and the  *)
(* frames that go round in them: from the fill ring to the driver, from    *)
(* there to the receive ring with a packet, and back.                      *)
(*                                                                         *)
(* cached_prod and cached_cons, the program's copies of the two indices it *)
(* alone writes, are those indices here.  The lengths in the descriptors   *)
(* are part of the packets.                                                *)
(***************************************************************************)
EXTENDS Integers, Sequences, FiniteSets

CONSTANTS
  NumFrames,    \* num_frames: of the UMEM, and the size of either ring
  IndexMod,     \* 2^32: the indices are uint32_t
  Packets       \* what a frame may hold

ASSUME RingAssumption ==
  /\ NumFrames \in Nat \ {0}
  /\ IndexMod \in Nat
  /\ IndexMod % NumFrames = 0
  /\ IndexMod > NumFrames

VARIABLES
  fq,         \* the fill ring: the program produces, the kernel consumes
  rx,         \* the receive ring, the other way round
  nic,        \* the frames the driver holds
  umem,       \* the packet in each frame
  recycled    \* received frames back in the fill ring, not yet released in rx

ringVars == <<fq, rx, nic, umem, recycled>>

Frames == 0 .. NumFrames - 1
Indices == 0 .. IndexMod - 1
Ring == [desc : [Frames -> Frames], producer : Indices, consumer : Indices]

\* xsk_ctx_create() puts every frame in the fill ring; the receive ring is the
\* kernel's memory, zeroed.
RingsInit ==
  /\ fq = [desc |-> [s \in Frames |-> s], producer |-> NumFrames, consumer |-> 0]
  /\ rx = [desc |-> [s \in Frames |-> 0], producer |-> 0, consumer |-> 0]
  /\ nic = {}
  /\ umem \in [Frames -> Packets]
  /\ recycled = 0

-----------------------------------------------------------------------------

\* Entries between consumer and producer: an unsigned difference.
Count(ring) == (ring.producer - ring.consumer) % IndexMod

\* The slot of an index, which is masked when it is used.
Slot(index) == index % NumFrames

Advance(index, n) == (index + n) % IndexMod

\* The frame of the i-th entry to be consumed, from 0.
Entry(ring, i) == ring.desc[Slot(ring.consumer + i)]

\* A defect the model can be run with: the batch is not limited.
PeekAll(max_batch) == Count(rx)

\* xsk_ctx_rx_peek()
Peek(max_batch) ==
  IF Count(rx) > max_batch THEN max_batch ELSE Count(rx)

\* xsk_ctx_rx_packet()
RxPacket(idx) == umem[Entry(rx, idx)]

\* A defect the model can be run with: the frame behind it.
NextReturned(i) == Entry(rx, i + 1)

\* The frame xsk_ctx_rx_release() gives back in place of the i-th it consumed.
Returned(i) == Entry(rx, i)

\* xsk_ctx_rx_release(), up to its first store: the frames of the first n
\* entries go back to the fill ring, whose consumer it does not look at.
Recycle(n) ==
  /\ recycled = 0
  /\ fq' = [fq EXCEPT
              !.desc = [s \in Frames |->
                          LET i == Slot(s - fq.producer)
                          IN IF i < n THEN Returned(i) ELSE fq.desc[s]],
              !.producer = Advance(fq.producer, n)]
  /\ recycled' = n
  /\ UNCHANGED <<rx, nic, umem>>

\* Its second store.
AdvanceConsumer ==
  /\ recycled > 0
  /\ rx' = [rx EXCEPT !.consumer = Advance(@, recycled)]
  /\ recycled' = 0
  /\ UNCHANGED <<fq, nic, umem>>

-----------------------------------------------------------------------------

\* The driver takes the next frame of the fill ring.
Take ==
  /\ Count(fq) > 0
  /\ nic' = nic \cup {Entry(fq, 0)}
  /\ fq' = [fq EXCEPT !.consumer = Advance(@, 1)]
  /\ UNCHANGED <<rx, umem, recycled>>

\* There is a frame for a packet and a place in the receive ring.
Room == nic # {} /\ Count(rx) < NumFrames

\* The driver puts a packet in a frame it holds, and that in the receive ring.
Deliver(packet) ==
  /\ Room
  /\ \E f \in nic :
       /\ umem' = [umem EXCEPT ![f] = packet]
       /\ rx' = [rx EXCEPT !.desc[Slot(rx.producer)] = f,
                           !.producer = Advance(@, 1)]
       /\ nic' = nic \ {f}
  /\ UNCHANGED <<fq, recycled>>

-----------------------------------------------------------------------------

\* The rings by themselves, with a user that releases what it likes.
RingsNext ==
  \/ Take
  \/ \E p \in Packets : Deliver(p)
  \/ \E n \in 1 .. Count(rx) : Recycle(n)
  \/ AdvanceConsumer

RingsSpec == RingsInit /\ [][RingsNext]_ringVars

\* What a ring holds behind its first k entries.
Behind(ring, mem, k) ==
  [i \in 1 .. Count(ring) - k |->
     LET f == Entry(ring, k + i - 1) IN [frame |-> f, packet |-> mem[f]]]

\* The entries the user has not given back, and the frames that are not theirs.
Received == Behind(rx, umem, recycled)
Filled == {Entry(fq, i) : i \in 0 .. Count(fq) - 1}
Free == nic \cup Filled

RingsTypeOK ==
  /\ fq \in Ring
  /\ rx \in Ring
  /\ nic \subseteq Frames
  /\ recycled \in 0 .. NumFrames
=============================================================================
