----------------------------- MODULE CrfListener -----------------------------
(***************************************************************************)
(* crf-listener-rpi.c: how the listener pairs the timestamps of the PDUs   *)
(* it receives with its own feedback edges, one edge per timestamp, and    *)
(* which pairs it hands to the servo.                                      *)
(*                                                                         *)
(* The edges wait in the PTP device's event FIFO, which the kernel         *)
(* overwrites from its oldest entry when it is full (external).  The       *)
(* process is single threaded: while edge_read() waits in on_timestamps()  *)
(* the socket fills and the FIFO goes on filling.                          *)
(***************************************************************************)
EXTENDS CrfReceiver

CONSTANTS
  EdgeCap,       \* events the kernel FIFO holds
  WaitPeriods    \* edge periods in edge_timeout_ms: 2

ASSUME ListenerAssumption ==
  /\ EdgeCap \in Nat \ {0}
  /\ WaitPeriods \in Nat \ {0}

VARIABLES
  edges,           \* feedback edges in the FIFO, oldest first
  synchronized,
  timestamps,      \* what on_crf_timestamps() has yet to pair
  waited,          \* edge periods spent in the present edge_read()
  sample,          \* the last edge and timestamp given to pi_servo_sample()
  overwritten      \* the FIFO lost an edge since the listener synchronised

listenerVars ==
  <<receiverVars, edges, synchronized, timestamps, waited, sample, overwritten>>

NoSample == [edge |-> -1, timestamp |-> -1]

ListenerInit ==
  /\ ReceiverInit
  /\ edges = <<>>
  /\ synchronized = FALSE
  /\ timestamps = <<>>
  /\ waited = 0
  /\ sample = NoSample
  /\ overwritten = FALSE

-----------------------------------------------------------------------------

\* The process is in select(): on_timestamps() has returned.
Idle == timestamps = <<>>

\* The process is in edge_read(), and nothing is there to read.
Blocked == timestamps # <<>> /\ synchronized /\ edges = <<>>

\* One edge period at the listener: the NIC captures edge k or it does not,
\* and an edge_read() that has waited its timeout returns before the next one.
ListenerCapture(k, captured) ==
  /\ Blocked => waited < WaitPeriods
  /\ waited' = IF Blocked THEN waited + 1 ELSE 0
  /\ edges' = CASE ~captured -> edges
                [] captured /\ Len(edges) < EdgeCap -> Append(edges, k)
                [] captured /\ Len(edges) = EdgeCap -> Append(Tail(edges), k)
  /\ overwritten' = (overwritten \/ (captured /\ Len(edges) = EdgeCap))
  /\ UNCHANGED <<receiverVars, synchronized, timestamps, sample>>

\* A defect the model can be run with: one edge is drained per lost PDU.
DrainPerPdu(gap) == SubSeq(edges, gap + 1, Len(edges))

\* on_crf_drop(): read and discard one edge per timestamp of the lost PDUs,
\* until the FIFO is empty.
Drained(gap) == SubSeq(edges, gap * TsPerPdu + 1, Len(edges))

\* crf_receiver_process() on a conformant PDU, up to the first timestamp.
Receive(pdu) ==
  /\ Idle
  /\ Process(pdu)
  /\ edges' = Drained(Gap(pdu.seq_num))
  /\ timestamps' = pdu.timestamps
  /\ waited' = 0
  /\ UNCHANGED <<synchronized, sample, overwritten>>

-----------------------------------------------------------------------------

\* What synchronize() discards as older than t: delta < 0, and not a match.
Older(e, t) == PhaseError(e, t) < -Tolerance

\* A defect the model can be run with: one edge per timestamp, older or not.
ReadsOne(t, n) == n = IF edges = <<>> THEN 0 ELSE 1

\* synchronize(t) reads the first n edges of the FIFO and no more: edges older
\* than t, up to the first that is not or to the end of the FIFO.
Reads(t, n) ==
  /\ \A i \in 1 .. n - 1 : Older(edges[i], t)
  /\ n < Len(edges) => n > 0 /\ ~Older(edges[n], t)

\* One turn of the loop of on_crf_timestamps() while not synchronised.  Every
\* edge that was read is gone, also one newer than the timestamp; the pair that
\* synchronises is not given to the servo.
Synchronize ==
  /\ timestamps # <<>>
  /\ ~synchronized
  /\ \E n \in 0 .. Len(edges) :
        /\ Reads(Head(timestamps), n)
        /\ synchronized' = (n > 0 /\ WithinTolerance(edges[n], Head(timestamps)))
        /\ edges' = SubSeq(edges, n + 1, Len(edges))
  /\ overwritten' = (overwritten /\ ~synchronized')
  /\ timestamps' = Tail(timestamps)
  /\ UNCHANGED <<receiverVars, waited, sample>>

\* A defect the model can be run with: no phase window.
PairUnchecked ==
  /\ timestamps # <<>>
  /\ synchronized
  /\ edges # <<>>
  /\ sample' = [edge |-> Head(edges), timestamp |-> Head(timestamps)]
  /\ edges' = Tail(edges)
  /\ timestamps' = Tail(timestamps)
  /\ waited' = 0
  /\ UNCHANGED <<receiverVars, synchronized, overwritten>>

\* One turn of that loop while synchronised, when edge_read() has an edge.
\* Outside the tolerance both the edge and the timestamp are gone.
Pair ==
  /\ timestamps # <<>>
  /\ synchronized
  /\ edges # <<>>
  /\ LET e == Head(edges)
         t == Head(timestamps)
     IN IF WithinTolerance(e, t)
          THEN /\ sample' = [edge |-> e, timestamp |-> t]
               /\ UNCHANGED synchronized
          ELSE /\ synchronized' = FALSE
               /\ UNCHANGED sample
  /\ edges' = Tail(edges)
  /\ timestamps' = Tail(timestamps)
  /\ waited' = 0
  /\ UNCHANGED <<receiverVars, overwritten>>

\* The other outcome of that edge_read(): the timestamp is given up, and the
\* listener remains synchronised.
EdgeTimeout ==
  /\ Blocked
  /\ waited = WaitPeriods
  /\ timestamps' = Tail(timestamps)
  /\ waited' = 0
  /\ UNCHANGED <<receiverVars, edges, synchronized, sample, overwritten>>

ListenerTypeOK ==
  /\ ReceiverTypeOK
  /\ edges \in Seq(Nat)
  /\ Len(edges) <= EdgeCap
  /\ synchronized \in BOOLEAN
  /\ timestamps \in Seq(Nat)
  /\ waited \in 0 .. WaitPeriods
  /\ sample \in [edge : Nat, timestamp : Nat] \cup {NoSample}
  /\ overwritten \in BOOLEAN
=============================================================================
