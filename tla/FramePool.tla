----------------------------- MODULE FramePool -----------------------------
(***************************************************************************)
(* What an AF_XDP receive path owes its user: a packet is put in a frame   *)
(* that is free, packets are read in the order they came in, and a frame   *)
(* is free again once its packet has been released.                        *)
(***************************************************************************)
EXTENDS Naturals, Sequences

CONSTANTS
  Frames,    \* the frames of the UMEM
  Packets    \* what a frame may hold

VARIABLES
  queue,     \* received and not released, oldest first
  free       \* the frames a packet may be put in

Init ==
  /\ queue = <<>>
  /\ free = Frames

\* A packet comes in, in a frame that was free.
Receive ==
  /\ Len(queue') = Len(queue) + 1
  /\ LET last == queue'[Len(queue')]
     IN /\ last \in [frame : free, packet : Packets]
        /\ queue' = Append(queue, last)
        /\ free' = free \ {last.frame}

\* The oldest n are released.
Release ==
  \E n \in 1 .. Len(queue) :
     /\ queue' = SubSeq(queue, n + 1, Len(queue))
     /\ free' = free \cup {queue[i].frame : i \in 1 .. n}

Next == Receive \/ Release

Spec == Init /\ [][Next]_<<queue, free>>
=============================================================================
