----------------------------- MODULE CrfReceiver -----------------------------
(***************************************************************************)
(* common/crf-receiver.c: the sequence-number bookkeeping of the CRF       *)
(* receiver and the callbacks it makes for one accepted PDU.               *)
(*                                                                         *)
(* A datagram that recv() or crf_pdu_parse() turns away changes no state   *)
(* of the receiver and makes no callback, so it is a stuttering step here. *)
(***************************************************************************)
EXTENDS CrfStream

VARIABLES
  first_packet,        \* no PDU has been accepted yet
  expected_seq_num,    \* the sequence number after the last accepted PDU
  pkt_count,           \* PDUs accepted
  drop_count           \* PDUs the gaps in the sequence numbers account for

receiverVars == <<first_packet, expected_seq_num, pkt_count, drop_count>>

\* crf_receiver_create() and crf_receiver_create_from_fd()
ReceiverInit ==
  /\ first_packet = TRUE
  /\ expected_seq_num = 0
  /\ pkt_count = 0
  /\ drop_count = 0

-----------------------------------------------------------------------------

\* A defect the model can be run with: the gap counts the PDU itself too.
GapOffByOne(seq) ==
  IF first_packet THEN 0 ELSE (seq - expected_seq_num + 1) % SeqNumMod

\* uint8_t gap = seq - rx->expected_seq_num, which is looked at only once a
\* first PDU has set expected_seq_num.
Gap(seq) == IF first_packet THEN 0 ELSE (seq - expected_seq_num) % SeqNumMod

\* A defect the model can be run with: the gap is not counted.
ProcessUncounted(pdu) ==
  /\ UNCHANGED drop_count
  /\ first_packet' = FALSE
  /\ expected_seq_num' = (pdu.seq_num + 1) % SeqNumMod
  /\ pkt_count' = pkt_count + 1

\* crf_receiver_process() on a PDU that parses.  Its on_drop() callback, made
\* when the gap is not 0, and then its on_timestamps() are the caller's.
Process(pdu) ==
  /\ drop_count' = drop_count + Gap(pdu.seq_num)
  /\ first_packet' = FALSE
  /\ expected_seq_num' = (pdu.seq_num + 1) % SeqNumMod
  /\ pkt_count' = pkt_count + 1

ReceiverTypeOK ==
  /\ first_packet \in BOOLEAN
  /\ expected_seq_num \in 0 .. SeqNumMod - 1
  /\ pkt_count \in Nat
  /\ drop_count \in Nat
=============================================================================
