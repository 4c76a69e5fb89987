------------------------------ MODULE CrfStream ------------------------------
(***************************************************************************)
(* What the CRF talker and the CRF listener of examples/hw-demos/rpi agree *)
(* on: the stream profile of common/crf-profile.h and the PDU that crosses *)
(* the network between them.                                               *)
(*                                                                         *)
(* Time is counted in edge periods.  Edge k is the k-th edge both ends     *)
(* generate from PTP time; the talker's hardware timestamp of it is k, and *)
(* the listener's own edge k is Phase fine units (Period of them to one    *)
(* edge period) away from it.                                              *)
(***************************************************************************)
EXTENDS Integers, Sequences

CONSTANTS
  TsPerPdu,   \* timestamps_per_pdu: 6 in the Table 28 profile
  SeqNumMod,     \* values of the sequence number: 256, a uint8_t
  Period,     \* fine units in one edge period
  Phase       \* listener edge k minus talker edge k, in fine units

\* edge_tolerance_ns: half an edge period, truncated to an integer.
Tolerance == Period \div 2

\* The integer truncation makes the window strictly narrower than a period
\* (3333333.3 ns and +-1666666 ns at 300 Hz): an odd Period keeps that.
ASSUME StreamAssumption ==
  /\ TsPerPdu \in Nat \ {0}
  /\ SeqNumMod \in Nat \ {0}
  /\ Period \in Nat \ {0}
  /\ 2 * Tolerance < Period
  /\ Phase \in -Tolerance .. Tolerance

-----------------------------------------------------------------------------

\* phase_error: (int64_t)(edge_ts - crf_ts), of listener edge e and timestamp t.
PhaseError(e, t) == Period * (e - t) + Phase

\* llabs(phase_error) <= edge_tolerance_ns
WithinTolerance(e, t) == PhaseError(e, t) \in -Tolerance .. Tolerance

\* A PDU: its sequence number, its timestamps, and (never read by the code,
\* only by the properties) the number of PDUs the talker had sent before it.
Pdu == [id : Nat, seq_num : 0 .. SeqNumMod - 1, timestamps : Seq(Nat)]
=============================================================================
